---- MODULE Spec2Model ----
(***************************************************************************)
(* A model of the asynchronous task-orchestration core of ranking_sys:     *)
(* the Task Lifecycle Store (app/services/task_store.py), the in-process   *)
(* deferred jobs (app/api/v1/endpoints/ranking.py, batch_ranking.py), the  *)
(* Webhook Notifier (app/services/webhook_service.py), the Batch           *)
(* Evaluation Engine (app/services/batch_processor.py), the task lookup    *)
(* (app/api/v1/endpoints/tasks.py) and the durable-workflow binding        *)
(* (app/temporal/workflows.py, activities.py).                             *)
(***************************************************************************)
EXTENDS Integers, Sequences, FiniteSets, TLC

VARIABLES
    store,       \* TaskStore._memory_store: task_id -> task record
    now,         \* the clock read by datetime.utcnow()
    job,         \* the deferred jobs of the in-process binding: task_id -> position
    hook,        \* the send_notification call of each job
    writes,      \* history: the statuses each job wrote through update_status
    undelivered, \* history: the record a task had when a notification that failed
                 \* on all its attempts was called
    workflows,   \* the workflow executions the Temporal server holds
    wf,          \* the position of each workflow's run method
    answers,     \* history: the answers to the POSTs of a send_notification call
    scenarios,        \* run_batch_ranking: the scenarios argument
    has_callback,     \* run_batch_ranking: progress_callback is not None
    pc,               \* process_scenario: the position of each coroutine
    semaphore,        \* asyncio.Semaphore(3): its value
    lock,             \* asyncio.Lock(): locked()
    completed_count,  \* completed_count[0]
    calls,            \* history: the (current, total) of each callback invocation
    oracle,           \* history: what rank_candidates did for each scenario
    results,          \* what each coroutine returns to gather
    batch_result,     \* what run_batch_ranking returned
    ranking,          \* rank_candidates: the position of one call under @retry
    replies,          \* history: what the oracle answered to each attempt
    gathered,         \* the per-scenario results handed to _calculate_statistics
    aggregate,        \* what _calculate_statistics returned, and of which binding
    generation,       \* generate_scenarios: the call, the oracle's reply, the list returned
    description,      \* _truncate_candidates: the description of a candidate, pass after pass
    url_ranking,      \* URL-based ranking: the request, the oracle's pick, the answer
    flow,             \* a batch flow: its candidates, its position, its evaluations
    active_connections, \* ConnectionManager.active_connections, by session id
    socket,           \* the client's end of the session's WebSocket
    frames,           \* history: the progress frames the socket took
    activity,         \* rank_single_scenario_activity under the retry policy
    order             \* history: the scenarios in the order their coroutines returned

storeVars == <<store, now>>
jobVars == <<job, hook, writes, undelivered>>
batchVars == <<scenarios, has_callback, pc, semaphore, lock, completed_count,
               calls, oracle, results, batch_result>>
rankVars == <<ranking, replies>>
statVars == <<gathered, aggregate>>
flowVars == <<flow, active_connections, socket, frames, activity, order>>
callVars == <<generation, description, url_ranking, flowVars>>
vars == <<store, now, job, hook, writes, undelivered, workflows, wf, answers,
          batchVars, rankVars, statVars, callVars>>

(***************************************************************************)
(* Value domains.                                                          *)
(***************************************************************************)
\* The ids uuid.uuid4() hands out, in the order it hands them out.
TaskIds == <<"t1", "t2">>
\* An id no create_task ever returned.
UnknownId == "t0"
AllIds == {TaskIds[i] : i \in 1..Len(TaskIds)} \cup {UnknownId}
\* Latest reading of the clock.
MaxTime == 1

PENDING == "pending"
PROCESSING == "processing"
COMPLETED == "completed"
FAILED == "failed"
TaskStatus == {PENDING, PROCESSING, COMPLETED, FAILED}
TaskType == {"rank", "rank_urls", "batch_generate", "batch_test", "batch_run"}
\* The task types the calls of SpecStore create.
StoreCallTypes == {"rank", "batch_run"}
None == "None"
NoTime == -1
WebhookUrls == {"http://hook"}
Results == {"R1"}
Errors == {"E1"}
Payloads == {"req"}

(***************************************************************************)
(* TaskStore (in-process fallback store).                                  *)
(***************************************************************************)
\* What get_task answers for an id the store does not hold (Python's None).
NoTask == [task_id |-> None]

get_task(st, task_id) ==
    IF task_id \in DOMAIN st THEN st[task_id] ELSE NoTask

create_task(st, task_id, task_type, request_data, webhook_url, t) ==
    [x \in (DOMAIN st) \cup {task_id} |->
        IF x = task_id
        THEN [task_id |-> task_id,
              task_type |-> task_type,
              status |-> PENDING,
              request_data |-> request_data,
              webhook_url |-> webhook_url,
              created_at |-> t,
              completed_at |-> NoTime,
              result |-> None,
              error |-> None]
        ELSE st[x]]

\* update_status that leaves the result out.
update_status_without_result(st, task_id, status, result, error, t) ==
    IF get_task(st, task_id) = NoTask
    THEN st
    ELSE LET task == st[task_id]
             t1 == [task EXCEPT !.status = status]
             t3 == IF error # None THEN [t1 EXCEPT !.error = error] ELSE t1
             t4 == IF status \in {COMPLETED, FAILED}
                   THEN [t3 EXCEPT !.completed_at = t] ELSE t3
         IN [st EXCEPT ![task_id] = t4]

\* update_status that stores a record for an id it does not know.
update_status_upsert(st, task_id, status, result, error, t) ==
    [x \in (DOMAIN st) \cup {task_id} |->
        IF x = task_id
        THEN [task_id |-> task_id, task_type |-> None, status |-> status,
              request_data |-> None, webhook_url |-> None, created_at |-> t,
              completed_at |-> NoTime, result |-> result, error |-> error]
        ELSE st[x]]

update_status(st, task_id, status, result, error, t) ==
    IF get_task(st, task_id) = NoTask
    THEN st
    ELSE LET task == st[task_id]
             t1 == [task EXCEPT !.status = status]
             t2 == IF result # None THEN [t1 EXCEPT !.result = result] ELSE t1
             t3 == IF error # None THEN [t2 EXCEPT !.error = error] ELSE t2
             t4 == IF status \in {COMPLETED, FAILED}
                   THEN [t3 EXCEPT !.completed_at = t] ELSE t3
         IN [st EXCEPT ![task_id] = t4]

\* uuid.uuid4(): an id that was never handed out before.
FreshId(st) == TaskIds[Cardinality(DOMAIN st) + 1]

(***************************************************************************)
(* SpecStore: any sequence of calls on the store's API.                    *)
(***************************************************************************)
StoreInit ==
    /\ store = << >>
    /\ now = 0

\* The variables a specification does not use keep these values.
JobIdle ==
    /\ job = << >>
    /\ hook = << >>
    /\ writes = << >>
    /\ undelivered = << >>

TemporalIdle == workflows = << >> /\ wf = << >>

WebhookIdle == answers = << >>

NoResult == [total_tests |-> -1]

BatchIdle ==
    /\ scenarios = << >>
    /\ has_callback = FALSE
    /\ pc = << >>
    /\ semaphore = 0
    /\ lock = FALSE
    /\ completed_count = 0
    /\ calls = << >>
    /\ oracle = << >>
    /\ results = << >>
    /\ batch_result = NoResult

NoRanking == [state |-> "idle"]

RankIdle ==
    /\ ranking = NoRanking
    /\ replies = << >>

StatsIdle ==
    /\ gathered = << >>
    /\ aggregate = NoResult

NoCalls == [state |-> "idle"]

\* The variables of the flows a specification does not run.
FlowsIdle ==
    /\ flow = NoCalls
    /\ active_connections = << >>
    /\ socket = NoCalls
    /\ frames = << >>
    /\ activity = NoCalls
    /\ order = << >>

CallsIdle ==
    /\ generation = NoCalls
    /\ description = NoCalls
    /\ url_ranking = NoCalls
    /\ FlowsIdle

Tick ==
    /\ now < MaxTime
    /\ now' = now + 1
    /\ UNCHANGED <<store, jobVars, workflows, wf, answers, batchVars,
                 rankVars, statVars, callVars>>

CreateTask ==
    /\ Cardinality(DOMAIN store) < Len(TaskIds)
    /\ \E ty \in StoreCallTypes, rd \in Payloads, url \in WebhookUrls \cup {None} :
          store' = create_task(store, FreshId(store), ty, rd, url, now)
    /\ UNCHANGED <<now, jobVars, workflows, wf, answers, batchVars,
                 rankVars, statVars, callVars>>

UpdateStatus ==
    /\ \E id \in AllIds, s \in TaskStatus,
          r \in Results \cup {None}, e \in Errors \cup {None} :
          store' = update_status(store, id, s, r, e, now)
    /\ UNCHANGED <<now, jobVars, workflows, wf, answers, batchVars,
                 rankVars, statVars, callVars>>

StoreNext == Tick \/ CreateTask \/ UpdateStatus

TaskStoreInit ==
    /\ store = << >>
    /\ now = 0
    /\ job = << >>
    /\ hook = << >>
    /\ writes = << >>
    /\ undelivered = << >>
    /\ workflows = << >>
    /\ wf = << >>
    /\ answers = << >>
    /\ BatchIdle
    /\ RankIdle
    /\ StatsIdle
    /\ CallsIdle

SpecStore == TaskStoreInit /\ [][StoreNext]_vars

(***************************************************************************)
(* WebhookService.send_notification.                                       *)
(***************************************************************************)
max_retries == 3
\* The status codes a webhook receiver answers with.
StatusCodes == {200, 201, 202, 203, 204, 404, 500}
Response(code) == [kind |-> "response", code |-> code]
\* httpx.TimeoutException and any other exception of the POST.
Timeout == [kind |-> "timeout", code |-> 0]
TransportError == [kind |-> "error", code |-> 0]
Outcomes == {Response(c) : c \in StatusCodes} \cup {Timeout, TransportError}

\* Line 70: the answers send_notification takes as a delivery.
Delivered(outcome) ==
    outcome.kind = "response" /\ outcome.code \in {200, 201, 202, 204}

\* The call has built its payload and enters the loop with attempt = 0.
HookCall(status, error) ==
    [state |-> "sending", attempt |-> 0, posts |-> 0,
     status |-> status, error |-> error]

NoHook == [state |-> "idle", attempt |-> 0, posts |-> 0,
           status |-> None, error |-> None]

\* post_attempt with the failure of the last attempt raised to the caller.
post_attempt_raising(h, outcome) ==
    LET posted == [h EXCEPT !.posts = @ + 1] IN
    IF Delivered(outcome)
    THEN [posted EXCEPT !.state = "true"]
    ELSE IF h.attempt < max_retries - 1
         THEN [posted EXCEPT !.attempt = @ + 1]
         ELSE [posted EXCEPT !.state = "raised"]

\* post_attempt with one pass too many.
post_attempt_one_more(h, outcome) ==
    LET posted == [h EXCEPT !.posts = @ + 1] IN
    IF Delivered(outcome)
    THEN [posted EXCEPT !.state = "true"]
    ELSE IF h.attempt < max_retries
         THEN [posted EXCEPT !.attempt = @ + 1]
         ELSE [posted EXCEPT !.state = "false"]

\* One pass of the loop body: the POST is made and answered by `outcome`.
\* state "true"/"false" is the value returned, "sending" the sleep before
\* the next pass.
post_attempt(h, outcome) ==
    LET posted == [h EXCEPT !.posts = @ + 1] IN
    IF Delivered(outcome)
    THEN [posted EXCEPT !.state = "true"]
    ELSE IF h.attempt < max_retries - 1
         THEN [posted EXCEPT !.attempt = @ + 1]
         ELSE [posted EXCEPT !.state = "false"]

\* Line 95: the sleep before the pass after `attempt`.
wait_time(attempt) == 2 ^ attempt

(***************************************************************************)
(* The task lookup, GET /tasks/{task_id}/result.                           *)
(***************************************************************************)
WorkflowExecutionStatus ==
    {"RUNNING", "COMPLETED", "FAILED", "CANCELED", "TERMINATED",
     "CONTINUED_AS_NEW", "TIMED_OUT"}

_map_temporal_status(status) ==
    CASE status = "RUNNING" -> PROCESSING
      [] status = "COMPLETED" -> COMPLETED
      [] status = "FAILED" -> FAILED
      [] status = "CANCELED" -> FAILED
      [] status = "TERMINATED" -> FAILED
      [] status = "CONTINUED_AS_NEW" -> PROCESSING
      [] status = "TIMED_OUT" -> FAILED
      [] OTHER -> PROCESSING

\* handle.describe() raises RPCError for an id the server holds no
\* execution of.
get_task_result(wfs, task_id) ==
    IF task_id \notin DOMAIN wfs
    THEN [code |-> 404, body |-> None]
    ELSE LET status == _map_temporal_status(wfs[task_id].status) IN
         IF status = PROCESSING THEN [code |-> 202, body |-> None]
         ELSE IF status = FAILED THEN [code |-> 500, body |-> None]
         ELSE [code |-> 200, body |-> wfs[task_id].result]

(***************************************************************************)
(* The in-process binding: the async submit endpoints and their deferred   *)
(* jobs (_execute_rank_task, _execute_rank_urls_task,                      *)
(* _execute_generate_scenarios_task, _execute_start_tests_task,            *)
(* _execute_batch_run_task).                                               *)
(***************************************************************************)
\* The ids of the workflow executions other clients started.
WorkflowIds == {"w1"}
InitialExecutions ==
    {<< >>} \cup
    {[w \in WorkflowIds |-> [status |-> s, result |-> r]] :
        s \in {"RUNNING", "COMPLETED", "FAILED"}, r \in Results}

Submitted == DOMAIN store

\* POST .../async: create_task, background_tasks.add_task, the answer.
Submit ==
    /\ Cardinality(DOMAIN store) < Len(TaskIds)
    /\ \E ty \in TaskType, rd \in Payloads, url \in WebhookUrls \cup {None} :
          LET id == FreshId(store) IN
          /\ store' = create_task(store, id, ty, rd, url, now)
          /\ job' = (id :> [pc |-> "start", webhook_url |-> url,
                            in_try |-> TRUE,
                            work |-> None, value |-> None]) @@ job
          /\ hook' = (id :> NoHook) @@ hook
          /\ writes' = (id :> << >>) @@ writes
          /\ undelivered' = (id :> NoTask) @@ undelivered
    /\ UNCHANGED <<now, workflows, wf, answers, batchVars,
                 rankVars, statVars, callVars>>

\* The job's first statement: update_status(task_id, PROCESSING).
JobStart(id) ==
    /\ job[id].pc = "start"
    /\ store' = update_status(store, id, PROCESSING, None, None, now)
    /\ writes' = [writes EXCEPT ![id] = Append(@, PROCESSING)]
    /\ job' = [job EXCEPT ![id].pc = "work"]
    /\ UNCHANGED <<now, hook, undelivered, workflows, wf, answers, batchVars,
                 rankVars, statVars, callVars>>

\* terminal_status of a job that swallows the exception of its work.
terminal_status_swallowed(work) == COMPLETED

\* The status the job writes once its work is over.
terminal_status(work) == IF work = "ok" THEN COMPLETED ELSE FAILED

\* The work returned `r`: update_status(COMPLETED, result) and the
\* notification of the try block.
JobWorkOk(id) ==
    /\ job[id].pc = "work"
    /\ \E r \in Results :
          /\ store' = update_status(store, id, terminal_status("ok"), r, None, now)
          /\ writes' = [writes EXCEPT ![id] = Append(@, terminal_status("ok"))]
          /\ IF job[id].webhook_url # None
             THEN /\ hook' = [hook EXCEPT ![id] = HookCall(COMPLETED, None)]
                  /\ job' = [job EXCEPT ![id].pc = "notify",
                                        ![id].work = "ok", ![id].value = r]
             ELSE /\ hook' = hook
                  /\ job' = [job EXCEPT ![id].pc = "done",
                                        ![id].work = "ok", ![id].value = r]
    /\ UNCHANGED <<now, undelivered, workflows, wf, answers, batchVars,
                 rankVars, statVars, callVars>>

\* The work raised `e`: the except block writes FAILED with str(e) and
\* notifies.
JobWorkRaise(id) ==
    /\ job[id].pc = "work"
    /\ \E e \in Errors :
          /\ store' = update_status(store, id, terminal_status("raised"), None, e, now)
          /\ writes' = [writes EXCEPT ![id] = Append(@, terminal_status("raised"))]
          /\ IF job[id].webhook_url # None
             THEN /\ hook' = [hook EXCEPT ![id] = HookCall(FAILED, e)]
                  /\ job' = [job EXCEPT ![id].pc = "notify",
                                        ![id].in_try = FALSE,
                                        ![id].work = "raised", ![id].value = e]
             ELSE /\ hook' = hook
                  /\ job' = [job EXCEPT ![id].pc = "done",
                                        ![id].in_try = FALSE,
                                        ![id].work = "raised", ![id].value = e]
    /\ UNCHANGED <<now, undelivered, workflows, wf, answers, batchVars,
                 rankVars, statVars, callVars>>

\* One POST of the job's send_notification call, answered by some outcome.
\* An exception leaving send_notification inside the try block is caught by
\* the job's `except Exception`, which writes FAILED and notifies again;
\* outside it, the exception leaves the job.
JobNotify(id) ==
    /\ job[id].pc = "notify"
    /\ hook[id].state = "sending"
    /\ \E outcome \in Outcomes :
          LET h == post_attempt(hook[id], outcome)
              gave_up == ~Delivered(outcome) /\ hook[id].attempt = max_retries - 1
          IN
          /\ undelivered' =
                IF gave_up /\ undelivered[id] = NoTask
                THEN [undelivered EXCEPT ![id] = store[id]]
                ELSE undelivered
          /\ IF h.state = "raised" /\ job[id].in_try
             THEN \E e \in Errors :
                  /\ store' = update_status(store, id, FAILED, None, e, now)
                  /\ writes' = [writes EXCEPT ![id] = Append(@, FAILED)]
                  /\ hook' = [hook EXCEPT ![id] = HookCall(FAILED, e)]
                  /\ job' = [job EXCEPT ![id].in_try = FALSE]
             ELSE /\ store' = store
                  /\ writes' = writes
                  /\ hook' = [hook EXCEPT ![id] = h]
                  /\ job' = [job EXCEPT ![id].pc =
                               CASE h.state = "sending" -> "notify"
                                 [] h.state = "raised" -> "raised"
                                 [] OTHER -> "done"]
    /\ UNCHANGED <<now, workflows, wf, answers, batchVars,
                 rankVars, statVars, callVars>>

InProcInit ==
    /\ StoreInit
    /\ JobIdle
    /\ WebhookIdle
    /\ BatchIdle
    /\ RankIdle
    /\ StatsIdle
    /\ CallsIdle
    /\ workflows \in InitialExecutions
    /\ wf = << >>

InProcNext ==
    \/ Submit
    \/ \E id \in DOMAIN job : JobStart(id)
    \/ \E id \in DOMAIN job : JobWorkOk(id)
    \/ \E id \in DOMAIN job : JobWorkRaise(id)
    \/ \E id \in DOMAIN job : JobNotify(id)

SpecInProc == InProcInit /\ [][InProcNext]_vars

(***************************************************************************)
(* SpecWebhook: one call of send_notification, every POST answered by any  *)
(* outcome.                                                                *)
(***************************************************************************)
\* The task the call notifies about.
Notified == "n1"

WebhookInit ==
    /\ StoreInit
    /\ TemporalIdle
    /\ job = << >>
    /\ writes = << >>
    /\ undelivered = << >>
    /\ answers = << >>
    /\ BatchIdle
    /\ RankIdle
    /\ StatsIdle
    /\ CallsIdle
    /\ \E s \in {COMPLETED, FAILED}, e \in Errors \cup {None} :
          hook = (Notified :> HookCall(s, e))

Post ==
    /\ hook[Notified].state = "sending"
    /\ \E outcome \in Outcomes :
          /\ hook' = [hook EXCEPT ![Notified] = post_attempt(@, outcome)]
          /\ answers' = Append(answers, outcome)
    /\ UNCHANGED <<storeVars, job, writes, undelivered, workflows, wf, batchVars,
                 rankVars, statVars, callVars>>

WebhookNext == Post

SpecWebhook == WebhookInit /\ [][WebhookNext]_vars

(***************************************************************************)
(* BatchProcessorService.                                                  *)
(***************************************************************************)
\* The candidates argument: the ids of the candidates, in order.
Candidates == <<"A", "B">>
CandidateIds == {Candidates[i] : i \in 1..Len(Candidates)}
\* The ids the oracle names as best_candidate_id in SpecBatch.
OracleWinners == {"A", "B"}
Reasonings == {"why"}
\* What time.time() - start_time measures.
Spans == {1}
\* Longest scenarios argument.
MaxScenarios == 4

TestScenario(i) == [scenario_id |-> <<"s", i>>, description |-> <<"d", i>>]

NoCall == [kind |-> "none"]
NotReturned == [winner_id |-> None]

\* Lines 44-50: the ScenarioResult of a scenario the oracle decided.
ok_result(scenario, response, processing_time) ==
    [scenario_id |-> scenario.scenario_id,
     scenario_description |-> scenario.description,
     winner_id |-> response.best_candidate_id,
     reasoning |-> <<response.reasoning>>,
     processing_time |-> processing_time]

\* error_result that names no winner.
error_result_no_winner(scenario, e) ==
    [scenario_id |-> scenario.scenario_id,
     scenario_description |-> scenario.description,
     winner_id |-> None,
     reasoning |-> <<"Error: ", e>>,
     processing_time |-> 0]

\* Lines 67-73: the ScenarioResult of a scenario whose oracle call raised.
error_result(scenario, e) ==
    [scenario_id |-> scenario.scenario_id,
     scenario_description |-> scenario.description,
     winner_id |-> "error",
     reasoning |-> <<"Error: ", e>>,
     processing_time |-> 0]

\* can_enter of a semaphore that never blocks.
can_enter_unbounded(value) == TRUE

\* `async with semaphore`: acquire() goes through while the value is positive.
can_enter(value) == value > 0

\* can_lock of a lock that never blocks.
can_lock_unguarded(locked) == TRUE

\* `async with lock`: acquire() goes through while the lock is not held.
can_lock(locked) == ~locked

\* progress_after_error of an except block that leaves the counter alone.
progress_after_error_forgotten(count) == count

\* Line 54 and line 63: completed_count[0] += 1.
progress_after_success(count) == count + 1
progress_after_error(count) == count + 1

\* valid_results that also drops the scenarios that failed.
valid_results_without_errors(rs) ==
    SelectSeq(rs, LAMBDA r : r # NotReturned /\ r.winner_id # "error")

\* valid_results in the opposite order.
valid_results_reversed(rs) ==
    LET kept == SelectSeq(rs, LAMBDA r : r # NotReturned)
    IN [k \in 1..Len(kept) |-> kept[Len(kept) + 1 - k]]

\* Line 84: the results gather returned, None filtered out.
valid_results(rs) == SelectSeq(rs, LAMBDA r : r # NotReturned)

Winners(rs) == {rs[k].winner_id : k \in 1..Len(rs)} \ {"error"}
Wins(rs, w) == Cardinality({k \in 1..Len(rs) : rs[k].winner_id = w})

\* Rate as a percentage.
Rate_percent(win_count, total) ==
    IF total > 0 THEN [num |-> 100 * win_count, den |-> total]
    ELSE [num |-> 0, den |-> 1]

\* A win rate: win_count / total, and 0 when total is 0.
Rate(win_count, total) ==
    IF total > 0 THEN [num |-> win_count, den |-> total]
    ELSE [num |-> 0, den |-> 1]

\* _calculate_statistics with the failed scenarios left out of the total.
_calculate_statistics_over_successes(rs, candidates) ==
    LET counter == [w \in Winners(rs) |-> Wins(rs, w)]
        total == Cardinality({k \in 1..Len(rs) : rs[k].winner_id # "error"})
        count_of(c) == IF c \in DOMAIN counter THEN counter[c] ELSE 0
    IN [total_tests |-> total,
        results |-> counter,
        win_rate |-> [c \in {candidates[i] : i \in 1..Len(candidates)} |->
                         Rate(count_of(c), total)],
        scenario_details |-> rs]

\* batch_processor.py, lines 89-110.
_calculate_statistics(rs, candidates) ==
    LET counter == [w \in Winners(rs) |-> Wins(rs, w)]
        total == Len(rs)
        count_of(c) == IF c \in DOMAIN counter THEN counter[c] ELSE 0
    IN [total_tests |-> total,
        results |-> counter,
        win_rate |-> [c \in {candidates[i] : i \in 1..Len(candidates)} |->
                         Rate(count_of(c), total)],
        scenario_details |-> rs]

(***************************************************************************)
(* SpecBatch: one run of run_batch_ranking.                                *)
(***************************************************************************)
N == Len(scenarios)

\* The oracle calls in flight.
InFlight == {i \in 1..N : pc[i] = "calling"}

\* The coroutines whose `await progress_callback(...)` has not returned.
InCallback == {i \in 1..N : has_callback /\ pc[i] = "inlock"}

BatchInit ==
    /\ StoreInit /\ JobIdle /\ TemporalIdle /\ WebhookIdle /\ RankIdle /\ StatsIdle
    /\ CallsIdle
    /\ \E n \in 0..MaxScenarios :
          /\ scenarios = [i \in 1..n |-> TestScenario(i)]
          /\ pc = [i \in 1..n |-> "waiting"]
          /\ oracle = [i \in 1..n |-> NoCall]
          /\ results = [i \in 1..n |-> NotReturned]
    /\ has_callback \in BOOLEAN
    /\ semaphore = 3
    /\ lock = FALSE
    /\ completed_count = 0
    /\ calls = << >>
    /\ batch_result = NoResult

\* `async with semaphore:` is entered and rank_candidates is called.
Enter(i) ==
    /\ pc[i] = "waiting"
    /\ can_enter(semaphore)
    /\ semaphore' = semaphore - 1
    /\ pc' = [pc EXCEPT ![i] = "calling"]
    /\ UNCHANGED <<scenarios, has_callback, lock, completed_count, calls,
                   oracle, results, batch_result>>

\* rank_candidates returned a response: the result is built (lines 42-50).
OracleOk(i) ==
    /\ pc[i] = "calling"
    /\ \E w \in OracleWinners, why \in Reasonings, span \in Spans :
          LET response == [best_candidate_id |-> w, reasoning |-> why] IN
          /\ oracle' = [oracle EXCEPT ![i] =
                          [kind |-> "ok", response |-> response, span |-> span]]
          /\ results' = [results EXCEPT ![i] =
                           ok_result(scenarios[i], response, span)]
    /\ pc' = [pc EXCEPT ![i] = "lockwait"]
    /\ UNCHANGED <<scenarios, has_callback, semaphore, lock, completed_count,
                   calls, batch_result>>

\* rank_candidates raised (its retries included): the except block.
OracleRaise(i) ==
    /\ pc[i] = "calling"
    /\ \E e \in Errors :
          /\ oracle' = [oracle EXCEPT ![i] = [kind |-> "raised", error |-> e]]
          /\ results' = [results EXCEPT ![i] = error_result(scenarios[i], e)]
    /\ pc' = [pc EXCEPT ![i] = "lockwait"]
    /\ UNCHANGED <<scenarios, has_callback, semaphore, lock, completed_count,
                   calls, batch_result>>

\* `async with lock:` is entered, the counter advanced and the callback
\* called with (completed_count[0], len(scenarios)).
LockEnter(i) ==
    /\ pc[i] = "lockwait"
    /\ can_lock(lock)
    /\ lock' = TRUE
    /\ LET count == IF oracle[i].kind = "ok"
                    THEN progress_after_success(completed_count)
                    ELSE progress_after_error(completed_count)
       IN /\ completed_count' = count
          /\ calls' = IF has_callback THEN Append(calls, <<count, N>>)
                      ELSE calls
    /\ pc' = [pc EXCEPT ![i] = "inlock"]
    /\ UNCHANGED <<scenarios, has_callback, semaphore, oracle, results,
                   batch_result>>

\* The callback returned: the lock and the semaphore are released and the
\* coroutine returns its result.
LockExit(i) ==
    /\ pc[i] = "inlock"
    /\ lock' = FALSE
    /\ semaphore' = semaphore + 1
    /\ pc' = [pc EXCEPT ![i] = "returned"]
    /\ UNCHANGED <<scenarios, has_callback, completed_count, calls, oracle,
                   results, batch_result>>

\* Lines 81-87: gather has every coroutine's result; the statistics.
Gather ==
    /\ batch_result = NoResult
    /\ \A i \in 1..N : pc[i] = "returned"
    /\ batch_result' = _calculate_statistics(valid_results(results), Candidates)
    /\ UNCHANGED <<scenarios, has_callback, pc, semaphore, lock,
                   completed_count, calls, oracle, results>>

BatchFrame ==
    UNCHANGED <<storeVars, jobVars, workflows, wf, answers, rankVars, statVars, callVars>>

BatchNext ==
    \/ \E i \in 1..N : Enter(i) /\ BatchFrame
    \/ \E i \in 1..N : OracleOk(i) /\ BatchFrame
    \/ \E i \in 1..N : OracleRaise(i) /\ BatchFrame
    \/ \E i \in 1..N : LockEnter(i) /\ BatchFrame
    \/ \E i \in 1..N : LockExit(i) /\ BatchFrame
    \/ Gather /\ BatchFrame

SpecBatch == BatchInit /\ [][BatchNext]_vars

\* The event loop runs every coroutine that can run, and every oracle call
\* returns or raises.
FairSpecBatch == SpecBatch /\ WF_vars(BatchNext)

(***************************************************************************)
(* The durable-workflow binding: BatchRankingWorkflow, SingleRankWorkflow, *)
(* URLRankWorkflow and the activities they schedule.                       *)
(***************************************************************************)
\* DEFAULT_RETRY_POLICY.maximum_attempts.
maximum_attempts == 3
\* start_to_close_timeout of send_webhook_notification_activity, seconds.
webhook_start_to_close == 30
\* WebhookService.timeout, seconds.
timeout == 10
\* The seconds a receiver takes to answer, or a POST to fail, when the POST
\* does not run into the timeout.
Latencies == {0, 5}

WorkflowKinds == {"BatchRankingWorkflow", "SingleRankWorkflow", "URLRankWorkflow"}

\* The activities a workflow awaits before its webhook step, in order.  The
\* fan-out of rank_single_scenario over the scenarios is one step here: it
\* is over when gather has every result, and fails when one activity has
\* failed on all its attempts.
Steps(kind) ==
    CASE kind = "BatchRankingWorkflow" -> <<"fetch", "generate", "rank">>
      [] kind = "SingleRankWorkflow" -> <<"rank">>
      [] kind = "URLRankWorkflow" -> <<"fetch", "rank">>

\* The seconds one POST of send_notification takes.
post_seconds(outcome, latency) ==
    IF outcome.kind = "timeout" THEN timeout ELSE latency

\* A client starts a workflow under a workflow id of its own.
StartWorkflow(wid) ==
    /\ wid \notin DOMAIN workflows
    /\ \E kind \in WorkflowKinds, url \in WebhookUrls \cup {None} :
          wf' = (wid :> [kind |-> kind, webhook_url |-> url, step |-> 1,
                         act_attempt |-> 1, hook |-> NoHook, elapsed |-> 0,
                         output |-> None]) @@ wf
    /\ workflows' = (wid :> [status |-> "RUNNING", result |-> None]) @@ workflows
    /\ UNCHANGED <<storeVars, jobVars, answers, batchVars,
                 rankVars, statVars, callVars>>

Running(wid) == wid \in DOMAIN wf /\ workflows[wid].status = "RUNNING"
InWebhookStep(wid) == wf[wid].step > Len(Steps(wf[wid].kind))

\* The activity of the current step returned.  After the last of them the
\* output is built: `if input.webhook_url:` the webhook activity is
\* scheduled, else the workflow returns the output.
ActivityReturns(wid) ==
    /\ Running(wid)
    /\ ~InWebhookStep(wid)
    /\ IF wf[wid].step < Len(Steps(wf[wid].kind))
       THEN /\ wf' = [wf EXCEPT ![wid].step = @ + 1, ![wid].act_attempt = 1]
            /\ workflows' = workflows
       ELSE \E r \in Results :
            IF wf[wid].webhook_url # None
            THEN /\ wf' = [wf EXCEPT ![wid].step = @ + 1,
                                     ![wid].act_attempt = 1,
                                     ![wid].output = r,
                                     ![wid].hook = HookCall(COMPLETED, None),
                                     ![wid].elapsed = 0]
                 /\ workflows' = workflows
            ELSE /\ wf' = [wf EXCEPT ![wid].step = @ + 1, ![wid].output = r]
                 /\ workflows' = [workflows EXCEPT ![wid] =
                                    [status |-> "COMPLETED", result |-> r]]
    /\ UNCHANGED <<storeVars, jobVars, answers, batchVars,
                 rankVars, statVars, callVars>>

\* What the retry policy makes of a failed attempt of the current activity:
\* another attempt, or an ActivityError that fails the workflow.
attempt_failed(w) ==
    IF w.act_attempt < maximum_attempts
    THEN [w EXCEPT !.act_attempt = @ + 1,
                   !.elapsed = 0,
                   !.hook = IF w.hook = NoHook THEN NoHook
                            ELSE HookCall(w.hook.status, w.hook.error)]
    ELSE [w EXCEPT !.act_attempt = 0]

WorkflowFailed(w) == w.act_attempt = 0

\* An attempt of the current activity raised, or ran past its timeout.
ActivityFails(wid) ==
    /\ Running(wid)
    /\ ~InWebhookStep(wid)
    /\ LET w == attempt_failed(wf[wid]) IN
       /\ wf' = [wf EXCEPT ![wid] = w]
       /\ workflows' = IF WorkflowFailed(w)
                       THEN [workflows EXCEPT ![wid].status = "FAILED"]
                       ELSE workflows
    /\ UNCHANGED <<storeVars, jobVars, answers, batchVars,
                 rankVars, statVars, callVars>>

\* One POST of the send_notification call that runs inside
\* send_webhook_notification_activity.  The attempt of the activity is
\* timed out once it has run past start_to_close_timeout.
WebhookActivityPost(wid) ==
    /\ Running(wid)
    /\ InWebhookStep(wid)
    /\ wf[wid].hook.state = "sending"
    /\ \E outcome \in Outcomes, latency \in Latencies :
          LET w == wf[wid]
              h == post_attempt(w.hook, outcome)
              seconds == w.elapsed + post_seconds(outcome, latency)
                         + (IF h.state = "sending"
                            THEN wait_time(w.hook.attempt) ELSE 0)
          IN
          IF seconds > webhook_start_to_close
          THEN LET failed == attempt_failed(w) IN
               /\ wf' = [wf EXCEPT ![wid] = failed]
               /\ workflows' = IF WorkflowFailed(failed)
                               THEN [workflows EXCEPT ![wid].status = "FAILED"]
                               ELSE workflows
          ELSE /\ wf' = [wf EXCEPT ![wid].hook = h, ![wid].elapsed = seconds]
               /\ workflows' = workflows
    /\ UNCHANGED <<storeVars, jobVars, answers, batchVars,
                 rankVars, statVars, callVars>>

\* send_webhook_notification_activity has returned what send_notification
\* returned; run ignores it and returns the output, which closes the
\* execution as COMPLETED.
WorkflowReturns(wid) ==
    /\ Running(wid)
    /\ InWebhookStep(wid)
    /\ wf[wid].hook.state \in {"true", "false"}
    /\ workflows' = [workflows EXCEPT ![wid] =
                       [status |-> "COMPLETED", result |-> wf[wid].output]]
    /\ UNCHANGED <<storeVars, jobVars, wf, answers, batchVars,
                 rankVars, statVars, callVars>>

DurableInit ==
    /\ StoreInit /\ JobIdle /\ WebhookIdle /\ BatchIdle /\ RankIdle /\ StatsIdle
    /\ CallsIdle
    /\ workflows = << >>
    /\ wf = << >>

DurableNext ==
    \/ \E wid \in WorkflowIds : StartWorkflow(wid)
    \/ \E wid \in WorkflowIds : ActivityReturns(wid)
    \/ \E wid \in WorkflowIds : ActivityFails(wid)
    \/ \E wid \in WorkflowIds : WebhookActivityPost(wid)
    \/ \E wid \in WorkflowIds : WorkflowReturns(wid)

SpecDurable == DurableInit /\ [][DurableNext]_vars

(***************************************************************************)
(* LLMService.rank_candidates under its tenacity @retry decorator.         *)
(***************************************************************************)
\* stop=stop_after_attempt(3)
stop_after_attempt == 3

\* The values a field of the oracle's JSON object holds: a string, or
\* something that is no string.
Str(v) == [type |-> "str", v |-> v]
Number == [type |-> "number", v |-> "7"]
\* The ids the oracle names as best_candidate_id: a candidate and an id
\* that is no candidate's.
NamedIds == {"A", "Z"}
FieldValues(f) ==
    IF f = "best_candidate_id"
    THEN {Str(i) : i \in NamedIds} \cup {Number}
    ELSE {Str("why"), Number}
AllFieldValues == FieldValues("best_candidate_id") \cup FieldValues("reasoning")

\* The JSON objects the oracle writes: each of the two fields is there or
\* not.
Objects ==
    UNION {{d \in [S -> AllFieldValues] : \A f \in S : d[f] \in FieldValues(f)} :
              S \in SUBSET {"best_candidate_id", "reasoning"}}

\* message.content, as a sequence of pieces: the opening or the closing of
\* a markdown code block, text that is no JSON, or the text of a JSON object.
FenceOpen == [t |-> "fence_json", data |-> << >>]
FenceClose == [t |-> "fence", data |-> << >>]
Garbage == [t |-> "text", data |-> << >>]
ObjectText(d) == [t |-> "object", data |-> d]
Bodies == {Garbage} \cup {ObjectText(d) : d \in Objects}
\* Bare content, content in a block opened with the json tag, and content in
\* a block opened with no tag.
Contents ==
    {<<b>> : b \in Bodies}
    \cup {<<FenceOpen, b, FenceClose>> : b \in Bodies}
    \cup {<<FenceClose, b, FenceClose>> : b \in Bodies}

\* What one call of client.chat.completions.create comes to: it raises an
\* APIError, answers with content None, or answers with content.
ApiError == [kind |-> "api_error", raw |-> << >>]
NoContent == [kind |-> "no_content", raw |-> << >>]
Content(raw) == [kind |-> "content", raw |-> raw]
OracleReplies == {ApiError, NoContent} \cup {Content(c) : c \in Contents}

\* Lines 94-98: the markdown fence is cut off both ends.
clean_content(raw) ==
    LET a == IF Len(raw) > 0 /\ raw[1].t = "fence_json" THEN Tail(raw) ELSE raw
    IN IF Len(a) > 0 /\ a[Len(a)].t = "fence" THEN SubSeq(a, 1, Len(a) - 1) ELSE a

\* Line 100: json.loads raises JSONDecodeError for what is no JSON text.
json_loads(text) ==
    IF Len(text) = 1 /\ text[1].t = "object"
    THEN [ok |-> TRUE, data |-> text[1].data]
    ELSE [ok |-> FALSE, data |-> << >>]

NoResponse == [best_candidate_id |-> None, reasoning |-> None]
Raise(exc) == [kind |-> "raise", exc |-> exc, response |-> NoResponse]
Return(response) == [kind |-> "return", exc |-> None, response |-> response]

\* Lines 79-117: the body of rank_candidates, one attempt.  data[...] of a
\* missing key raises KeyError; RankingResponse(...) raises pydantic's
\* ValidationError, a ValueError, for a field that is no string; both except
\* blocks raise the exception on.
rank_attempt(reply) ==
    IF reply.kind = "api_error" THEN Raise("APIError")
    ELSE IF reply.kind = "no_content" THEN Raise("TypeError")
    ELSE LET loaded == json_loads(clean_content(reply.raw))
             data == loaded.data
         IN IF ~loaded.ok THEN Raise("JSONDecodeError")
            ELSE IF "best_candidate_id" \notin DOMAIN data THEN Raise("KeyError")
            ELSE IF "reasoning" \notin DOMAIN data THEN Raise("KeyError")
            ELSE IF data["best_candidate_id"].type # "str"
                    \/ data["reasoning"].type # "str"
                 THEN Raise("ValidationError")
                 ELSE Return([best_candidate_id |-> data["best_candidate_id"].v,
                              reasoning |-> data["reasoning"].v])

\* Line 66: retry_if_exception_type((json.JSONDecodeError, ValueError,
\* APIError)).
retry_if_exception_type(exc) ==
    exc \in {"JSONDecodeError", "ValidationError", "APIError"}

\* The call before its first attempt.
RankCall ==
    [state |-> "calling", attempt_number |-> 1,
     response |-> NoResponse, error |-> None]

\* after_attempt with a fourth attempt.
after_attempt_one_more(r, outcome) ==
    IF outcome.kind = "return"
    THEN [r EXCEPT !.state = "returned", !.response = outcome.response]
    ELSE IF retry_if_exception_type(outcome.exc)
            /\ r.attempt_number < stop_after_attempt + 1
         THEN [r EXCEPT !.attempt_number = @ + 1]
         ELSE [r EXCEPT !.state = "raised", !.error = outcome.exc]

\* Lines 63-68: what @retry makes of an attempt: the value is returned; an
\* exception of a retried type before the third attempt is over leads to the
\* next attempt; any other exception, and the exception of the third
\* attempt, is raised to the caller as it is (reraise=True).
after_attempt(r, outcome) ==
    IF outcome.kind = "return"
    THEN [r EXCEPT !.state = "returned", !.response = outcome.response]
    ELSE IF retry_if_exception_type(outcome.exc)
            /\ r.attempt_number < stop_after_attempt
         THEN [r EXCEPT !.attempt_number = @ + 1]
         ELSE [r EXCEPT !.state = "raised", !.error = outcome.exc]

RankInit ==
    /\ StoreInit /\ JobIdle /\ TemporalIdle /\ WebhookIdle /\ BatchIdle /\ StatsIdle
    /\ CallsIdle
    /\ ranking = RankCall
    /\ replies = << >>

\* One attempt: the oracle is invoked and answers with any reply.
Attempt ==
    /\ ranking.state = "calling"
    /\ \E reply \in OracleReplies :
          /\ ranking' = after_attempt(ranking, rank_attempt(reply))
          /\ replies' = Append(replies, reply)
    /\ UNCHANGED <<storeVars, jobVars, workflows, wf, answers, batchVars, statVars,
                   callVars>>

RankNext == Attempt

SpecRank == RankInit /\ [][RankNext]_vars

(***************************************************************************)
(* SpecStats: the aggregation of both bindings,                            *)
(* BatchProcessorService._calculate_statistics and                         *)
(* BatchRankingWorkflow._calculate_statistics, applied to the same         *)
(* per-scenario results.                                                   *)
(***************************************************************************)
\* Longest list of per-scenario results.
MaxGathered == 4

\* workflows.py, lines 130-157: the counts are kept for the candidates, and
\* for them only.
BatchRankingWorkflow_calculate_statistics(rs, candidates) ==
    LET counter == [w \in Winners(rs) |-> Wins(rs, w)]
        total == Len(rs)
        count_of(c) == IF c \in DOMAIN counter THEN counter[c] ELSE 0
        ids == {candidates[i] : i \in 1..Len(candidates)}
    IN [total_tests |-> total,
        results |-> [c \in ids |-> count_of(c)],
        win_rate |-> [c \in ids |-> Rate(count_of(c), total)],
        scenario_details |-> rs]

StatsInit ==
    /\ StoreInit /\ JobIdle /\ TemporalIdle /\ WebhookIdle /\ BatchIdle /\ RankIdle
    /\ CallsIdle
    /\ gathered = << >>
    /\ aggregate = NoResult

StatsFrame ==
    UNCHANGED <<storeVars, jobVars, workflows, wf, answers, batchVars, rankVars,
                callVars>>

\* The evaluation of the next scenario is over: the oracle named a
\* candidate, or an id that is no candidate's.
ScenarioDecided ==
    /\ aggregate = NoResult
    /\ Len(gathered) < MaxGathered
    /\ \E w \in CandidateIds \cup (NamedIds \ CandidateIds), why \in Reasonings, span \in Spans :
          gathered' = Append(gathered,
                             ok_result(TestScenario(Len(gathered) + 1),
                                       [best_candidate_id |-> w, reasoning |-> why],
                                       span))
    /\ UNCHANGED aggregate

\* The evaluation of the next scenario raised.
ScenarioFailed ==
    /\ aggregate = NoResult
    /\ Len(gathered) < MaxGathered
    /\ \E e \in Errors :
          gathered' = Append(gathered,
                             error_result(TestScenario(Len(gathered) + 1), e))
    /\ UNCHANGED aggregate

\* run_batch_ranking, line 87.
AggregateInProcess ==
    /\ aggregate = NoResult
    /\ aggregate' = [binding |-> "in_process",
                     out |-> _calculate_statistics(gathered, Candidates)]
    /\ UNCHANGED gathered

\* BatchRankingWorkflow.run, line 112.
AggregateWorkflow ==
    /\ aggregate = NoResult
    /\ aggregate' = [binding |-> "workflow",
                     out |-> BatchRankingWorkflow_calculate_statistics(gathered, Candidates)]
    /\ UNCHANGED gathered

StatsNext ==
    \/ ScenarioDecided /\ StatsFrame
    \/ ScenarioFailed /\ StatsFrame
    \/ AggregateInProcess /\ StatsFrame
    \/ AggregateWorkflow /\ StatsFrame

SpecStats == StatsInit /\ [][StatsNext]_vars

(***************************************************************************)
(* SpecGenerate: PromptGeneratorService.generate_scenarios, one call.      *)
(***************************************************************************)
\* Largest num_scenarios asked for (the request schema allows 2 to 20).
MaxRequested == 3
\* Longest "scenarios" list the oracle writes.
MaxListed == 3

\* The items of the oracle's "scenarios" list: a JSON object with or
\* without "scenario_id" and "description", or something that is no object.
\* The scenario ids the oracle writes: one of its own, and one that has the
\* form of the positional ids.
OracleScenarioIds == {<<"oracle_", 1>>, <<"s_", 2>>}
ItemObjects ==
    {d \in UNION {[S -> OracleScenarioIds \cup {<<"oracle">>}] :
                      S \in SUBSET {"scenario_id", "description"}} :
        /\ "scenario_id" \in DOMAIN d => d["scenario_id"] \in OracleScenarioIds
        /\ "description" \in DOMAIN d => d["description"] = <<"oracle">>}
Item(d) == [is_dict |-> TRUE, data |-> d]
NotADict == [is_dict |-> FALSE, data |-> << >>]
Items == {Item(d) : d \in ItemObjects} \cup {NotADict}
ItemLists == UNION {[1..n -> Items] : n \in 0..MaxListed}

\* What the oracle call of generate_scenarios comes to: the call raises,
\* the content is None, is no JSON, is a JSON object without "scenarios",
\* with "scenarios": null, or with a "scenarios" list.
GenReply(kind, items) == [kind |-> kind, items |-> items]
GenReplies ==
    {GenReply(k, << >>) : k \in {"unreachable", "no_content", "not_json",
                                 "absent", "null"}}
    \cup {GenReply("list", l) : l \in ItemLists}
NoGenReply == GenReply("none", << >>)

\* _fallback_scenarios that stops one short.
_fallback_scenarios_one_short(count) ==
    [k \in 1..(count - 1) |->
        [scenario_id |-> <<"fallback_", k - 1>>,
         description |-> <<"generic scenario ", k>>]]

\* Lines 222-229: for i in range(count), id fallback_<i> and a description
\* that names i + 1.
_fallback_scenarios(count) ==
    [k \in 1..count |->
        [scenario_id |-> <<"fallback_", k - 1>>,
         description |-> <<"generic scenario ", k>>]]

\* Lines 96-103 and 183-190: one TestScenario per item of
\* data.get("scenarios", []); item.get of an item that is no dict raises.
scenarios_of(items) ==
    [k \in 1..Len(items) |->
        [scenario_id |-> IF "scenario_id" \in DOMAIN items[k].data
                         THEN items[k].data["scenario_id"]
                         ELSE <<"s_", k>>,
         description |-> IF "description" \in DOMAIN items[k].data
                         THEN items[k].data["description"]
                         ELSE << >>]]

\* Lines 82-108: every exception of the try block leads to the fallback.
_generate_auto(num_scenarios, reply) ==
    IF reply.kind \in {"unreachable", "no_content", "not_json", "null"}
    THEN _fallback_scenarios(num_scenarios)
    ELSE IF reply.kind = "absent" THEN << >>
    ELSE IF \E k \in 1..Len(reply.items) : ~reply.items[k].is_dict
         THEN _fallback_scenarios(num_scenarios)
         ELSE scenarios_of(reply.items)

\* Lines 169-194.
_generate_with_template(num_scenarios, reply) ==
    IF reply.kind \in {"unreachable", "no_content", "not_json", "null"}
    THEN _fallback_scenarios(num_scenarios)
    ELSE IF reply.kind = "absent" THEN << >>
    ELSE IF \E k \in 1..Len(reply.items) : ~reply.items[k].is_dict
         THEN _fallback_scenarios(num_scenarios)
         ELSE scenarios_of(reply.items)

\* Lines 26-29.
generate_scenarios(num_scenarios, custom_query, reply) ==
    IF custom_query # None
    THEN _generate_with_template(num_scenarios, reply)
    ELSE _generate_auto(num_scenarios, reply)

CustomQueries == {"template"}

GenerateFrame ==
    UNCHANGED <<storeVars, jobVars, workflows, wf, answers, batchVars, rankVars,
                statVars, description, url_ranking, flowVars>>

GenerateInit ==
    /\ StoreInit /\ JobIdle /\ TemporalIdle /\ WebhookIdle /\ BatchIdle
    /\ RankIdle /\ StatsIdle
    /\ description = NoCalls
    /\ url_ranking = NoCalls
    /\ FlowsIdle
    /\ \E n \in 2..MaxRequested, q \in CustomQueries \cup {None} :
          generation = [state |-> "called", num_scenarios |-> n,
                        custom_query |-> q, reply |-> NoGenReply,
                        scenarios |-> << >>]

\* The oracle answers and generate_scenarios returns.
Generate ==
    /\ generation.state = "called"
    /\ \E reply \in GenReplies :
          generation' =
              [generation EXCEPT
                  !.state = "returned",
                  !.reply = reply,
                  !.scenarios = generate_scenarios(generation.num_scenarios,
                                                   generation.custom_query, reply)]
    /\ GenerateFrame

GenerateNext == Generate

SpecGenerate == GenerateInit /\ [][GenerateNext]_vars

(***************************************************************************)
(* SpecExpiry: one task in the in-process fallback store, over more days   *)
(* than the TTL.  One tick of the clock is a day here.                     *)
(***************************************************************************)
\* self.task_ttl = 86400 * 7 seconds, in days.
task_ttl == 7
\* Latest day of the clock.
MaxDays == 8

ExpiryFrame ==
    UNCHANGED <<jobVars, workflows, wf, answers, batchVars, rankVars, statVars,
                callVars>>

\* create_task, once.
TaskStored ==
    /\ store = << >>
    /\ \E ty \in StoreCallTypes, rd \in Payloads :
          store' = create_task(store, FreshId(store), ty, rd, None, now)
    /\ UNCHANGED now

\* update_status of the task: processing, completed with a result, failed
\* with an error.
TaskUpdated ==
    /\ \E id \in DOMAIN store :
          \/ store' = update_status(store, id, PROCESSING, None, None, now)
          \/ \E r \in Results : store' = update_status(store, id, COMPLETED, r, None, now)
          \/ \E e \in Errors : store' = update_status(store, id, FAILED, None, e, now)
    /\ UNCHANGED now

DayPasses ==
    /\ now < MaxDays
    /\ now' = now + 1
    /\ UNCHANGED store

ExpiryNext ==
    \/ TaskStored /\ ExpiryFrame
    \/ TaskUpdated /\ ExpiryFrame
    \/ DayPasses /\ ExpiryFrame

SpecExpiry == TaskStoreInit /\ [][ExpiryNext]_vars

(***************************************************************************)
(* SpecTruncate: the second pass of LLMService._truncate_candidates on the *)
(* description of one candidate, applied again to what it returned.  A     *)
(* description is modelled by its length.                                  *)
(***************************************************************************)
\* info_copy['description'][:200]
description_budget == 200
\* len("...(truncated)")
truncated_mark == 14
\* Longest description.
MaxDescription == 220
\* Most passes over one description.
MaxPasses == 2

\* text[:n]
slice_to(length, n) == IF length < n THEN length ELSE n

\* Line 56: info_copy['description'][:200] + "...(truncated)", for every
\* description that is a string, long or short.
truncate_description(length) ==
    slice_to(length, description_budget) + truncated_mark

TruncateFrame ==
    UNCHANGED <<storeVars, jobVars, workflows, wf, answers, batchVars, rankVars,
                statVars, generation, url_ranking, flowVars>>

TruncateInit ==
    /\ StoreInit /\ JobIdle /\ TemporalIdle /\ WebhookIdle /\ BatchIdle
    /\ RankIdle /\ StatsIdle
    /\ generation = NoCalls
    /\ url_ranking = NoCalls
    /\ FlowsIdle
    /\ \E n \in 0..MaxDescription :
          description = [state |-> "text", lengths |-> <<n>>]

\* One more pass over the description the last pass returned.
Truncate ==
    /\ description.state = "text"
    /\ Len(description.lengths) <= MaxPasses
    /\ description' =
          [description EXCEPT
              !.lengths = Append(@, truncate_description(@[Len(@)]))]
    /\ TruncateFrame

TruncateNext == Truncate

SpecTruncate == TruncateInit /\ [][TruncateNext]_vars

(***************************************************************************)
(* SpecUrlRank: URL-based ranking in its three bindings, from the pages    *)
(* to the best_candidate_id that is returned.                              *)
(***************************************************************************)
\* Longest urls list (the request schema allows 2 to 10).
MaxUrls == 3
Urls == {<<"http://site/", 1>>, <<"http://site/", 2>>}
UrlLists == UNION {[1..n -> Urls] : n \in 2..MaxUrls}

\* f"url_{i}" for the i of enumerate, counted from 0.
synthetic_id(i) == <<"url_", i>>
\* An id the oracle names that is no candidate's.
OtherId == <<"none of them", 0>>

\* scrape_urls: one page per url, in the order of the urls.
scrape_urls(urls) == [k \in 1..Len(urls) |-> [url |-> urls[k]]]

\* `for i, page in enumerate(pages): if best == f"url_{i}": best =
\* page["url"]; break`.
remap_to_url(best_candidate_id, pages) ==
    LET hits == {i \in 0..(Len(pages) - 1) : best_candidate_id = synthetic_id(i)}
    IN IF hits = {} THEN best_candidate_id
       ELSE pages[(CHOOSE i \in hits : \A j \in hits : i <= j) + 1].url

\* ranking.py, lines 35-102: what the synchronous endpoint answers when the
\* oracle named `best_candidate_id`.
rank_urls(urls, best_candidate_id) ==
    remap_to_url(best_candidate_id, scrape_urls(urls))

\* ranking.py, lines 238-325: the result the in-process job stores.
_execute_rank_urls_task(urls, best_candidate_id) ==
    remap_to_url(best_candidate_id, scrape_urls(urls))

\* workflows.py, lines 213-265: the output has best_candidate_id =
\* result.winner_id.
URLRankWorkflow_run(urls, winner_id) == winner_id

UrlBindings == {"rank_urls", "_execute_rank_urls_task", "URLRankWorkflow"}

UrlRankFrame ==
    UNCHANGED <<storeVars, jobVars, workflows, wf, answers, batchVars, rankVars,
                statVars, generation, description, flowVars>>

UrlRankInit ==
    /\ StoreInit /\ JobIdle /\ TemporalIdle /\ WebhookIdle /\ BatchIdle
    /\ RankIdle /\ StatsIdle
    /\ generation = NoCalls
    /\ description = NoCalls
    /\ FlowsIdle
    /\ \E b \in UrlBindings, urls \in UrlLists :
          url_ranking = [state |-> "requested", binding |-> b, urls |-> urls,
                         pick |-> OtherId, best_candidate_id |-> OtherId]

\* The oracle names a synthetic candidate, or something else, and the
\* binding returns its answer.
UrlRanked ==
    /\ url_ranking.state = "requested"
    /\ \E pick \in {synthetic_id(i) : i \in 0..(Len(url_ranking.urls) - 1)}
                      \cup {OtherId} :
          url_ranking' =
              [url_ranking EXCEPT
                  !.state = "answered",
                  !.pick = pick,
                  !.best_candidate_id =
                      CASE url_ranking.binding = "rank_urls" ->
                               rank_urls(url_ranking.urls, pick)
                        [] url_ranking.binding = "_execute_rank_urls_task" ->
                               _execute_rank_urls_task(url_ranking.urls, pick)
                        [] OTHER ->
                               URLRankWorkflow_run(url_ranking.urls, pick)]
    /\ UrlRankFrame

UrlRankNext == UrlRanked

SpecUrlRank == UrlRankInit /\ [][UrlRankNext]_vars

(***************************************************************************)
(* SpecEnrich: a batch flow from its candidates to its evaluations, in     *)
(* its four bindings.                                                      *)
(***************************************************************************)
\* Scenarios evaluated by one flow.
MaxFlowScenarios == 2
\* Candidates of one flow.
MaxFlowCandidates == 2

\* A candidate's info as the request gives it: with a url or not, with a
\* description or not.
CandidateInfos == [url : BOOLEAN, description : {"", "given"}]
CandidateLists == UNION {[1..n -> CandidateInfos] : n \in 1..MaxFlowCandidates}
\* The status of a page scrape_url returns.
ScrapeStatuses == {"success", "error", "partial"}

\* url_fetch_service.py, lines 90-106: a url, and no description yet.
_should_fetch_url(candidate) == candidate.url /\ candidate.description = ""

\* Lines 46-56: the indices of the candidates to fetch, in order.
url_indices(candidates) ==
    LET RECURSIVE collect(_)
        collect(i) ==
            IF i > Len(candidates) THEN << >>
            ELSE (IF _should_fetch_url(candidates[i]) THEN <<i>> ELSE << >>)
                 \o collect(i + 1)
    IN collect(1)

\* Lines 69-85: the description written for a page of this status.
description_of(status) ==
    CASE status = "success" -> "scraped"
      [] status = "error" -> "scrape failed"
      [] OTHER -> "partial"

FlowBindings == {"start_tests", "_execute_start_tests_task",
                 "_execute_batch_run_task", "BatchRankingWorkflow"}

\* steps_of that evaluates before it enriches.
steps_of_evaluate_first(binding) == <<"evaluate", "enrich">>

\* The awaits of each binding, in the order of its statements.
steps_of(binding) ==
    CASE binding = "_execute_batch_run_task" -> <<"generate", "enrich", "evaluate">>
      [] binding = "BatchRankingWorkflow" -> <<"enrich", "generate", "evaluate">>
      [] OTHER -> <<"enrich", "evaluate">>

FlowStep == IF flow.at <= Len(steps_of(flow.binding))
            THEN steps_of(flow.binding)[flow.at] ELSE "return"

EnrichFrame ==
    UNCHANGED <<storeVars, jobVars, workflows, wf, answers, batchVars, rankVars,
                statVars, generation, description, url_ranking,
                active_connections, socket, frames, activity, order>>

EnrichInit ==
    /\ StoreInit /\ JobIdle /\ TemporalIdle /\ WebhookIdle /\ BatchIdle
    /\ RankIdle /\ StatsIdle
    /\ generation = NoCalls
    /\ description = NoCalls
    /\ url_ranking = NoCalls
    /\ active_connections = << >>
    /\ socket = NoCalls
    /\ frames = << >>
    /\ activity = NoCalls
    /\ order = << >>
    /\ \E b \in FlowBindings, cs \in CandidateLists :
          flow = [state |-> "running", binding |-> b, at |-> 1,
                  candidates |-> cs,
                  scraping |-> FALSE, todo |-> << >>,
                  written |-> [i \in 1..Len(cs) |-> 0],
                  late |-> FALSE,
                  started |-> 0, finished |-> 0]

\* generate_scenarios returned.
GenerateStep ==
    /\ flow.state = "running"
    /\ FlowStep = "generate"
    /\ flow' = [flow EXCEPT !.at = @ + 1]
    /\ EnrichFrame

\* enrich_candidates_with_urls, lines 46-66: the urls are collected, and
\* the call returns at once when there are none; else scrape_urls is awaited.
EnrichCollect ==
    /\ flow.state = "running"
    /\ FlowStep = "enrich"
    /\ ~flow.scraping
    /\ flow' = IF url_indices(flow.candidates) = << >>
               THEN [flow EXCEPT !.at = @ + 1]
               ELSE [flow EXCEPT !.scraping = TRUE,
                                 !.todo = url_indices(flow.candidates)]
    /\ EnrichFrame

\* Lines 69-85: one turn of the loop over zip(url_indices, results) writes
\* the description of one candidate; after the last, the call returns.
EnrichFill ==
    /\ flow.state = "running"
    /\ FlowStep = "enrich"
    /\ flow.scraping
    /\ flow.todo # << >>
    /\ \E status \in ScrapeStatuses :
          LET idx == Head(flow.todo)
              rest == Tail(flow.todo) IN
          flow' = [flow EXCEPT
                      !.candidates[idx].description = description_of(status),
                      !.written[idx] = @ + 1,
                      !.late = @ \/ flow.started > 0,
                      !.todo = rest,
                      !.scraping = rest # << >>,
                      !.at = IF rest = << >> THEN @ + 1 ELSE @]
    /\ EnrichFrame

\* One evaluation starts: rank_candidates reads the candidates.
EvaluationStarts ==
    /\ flow.state = "running"
    /\ FlowStep = "evaluate"
    /\ flow.started < MaxFlowScenarios
    /\ flow' = [flow EXCEPT !.started = @ + 1]
    /\ EnrichFrame

\* One evaluation returns.
EvaluationReturns ==
    /\ flow.state = "running"
    /\ FlowStep = "evaluate"
    /\ flow.finished < flow.started
    /\ flow' = [flow EXCEPT
                   !.finished = @ + 1,
                   !.at = IF flow.finished + 1 = MaxFlowScenarios THEN @ + 1 ELSE @]
    /\ EnrichFrame

\* The flow returns its result.
FlowReturns ==
    /\ flow.state = "running"
    /\ FlowStep = "return"
    /\ flow' = [flow EXCEPT !.state = "returned"]
    /\ EnrichFrame

EnrichNext ==
    \/ GenerateStep
    \/ EnrichCollect
    \/ EnrichFill
    \/ EvaluationStarts
    \/ EvaluationReturns
    \/ FlowReturns

SpecEnrich == EnrichInit /\ [][EnrichNext]_vars

(***************************************************************************)
(* SpecStartTests: start_tests with its progress callback, the connection  *)
(* manager and the session's socket.                                       *)
(***************************************************************************)
\* Scenarios of one start_tests request.
MaxProgressScenarios == 3
SessionIds == {"s1"}

\* ConnectionManager.disconnect that forgets nothing.
disconnect_kept(connections, session_id) == connections

\* ConnectionManager.disconnect, lines 31-33.
disconnect(connections, session_id) ==
    [s \in (DOMAIN connections) \ {session_id} |-> connections[s]]

\* Lines 35-36 of send_progress, and the `if request.session_id` of the
\* callback: is there a socket to send the frame to.
has_connection(connections, session_id) ==
    session_id # None /\ session_id \in DOMAIN connections

\* Lines 37-44: the registry after send_json returned or raised.
send_progress(connections, session_id, sent) ==
    IF sent THEN connections ELSE disconnect(connections, session_id)

sessionVars == <<active_connections, socket, frames>>

StartTestsFrame ==
    UNCHANGED <<storeVars, jobVars, workflows, wf, answers, rankVars, statVars,
                generation, description, url_ranking, flow, activity, order>>

StartTestsInit ==
    /\ StoreInit /\ JobIdle /\ TemporalIdle /\ WebhookIdle /\ RankIdle /\ StatsIdle
    /\ generation = NoCalls
    /\ description = NoCalls
    /\ url_ranking = NoCalls
    /\ flow = NoCalls
    /\ activity = NoCalls
    /\ order = << >>
    /\ \E n \in 1..MaxProgressScenarios :
          /\ scenarios = [i \in 1..n |-> TestScenario(i)]
          /\ pc = [i \in 1..n |-> "waiting"]
          /\ oracle = [i \in 1..n |-> NoCall]
          /\ results = [i \in 1..n |-> NotReturned]
    /\ has_callback = TRUE
    /\ semaphore = 3
    /\ lock = FALSE
    /\ completed_count = 0
    /\ calls = << >>
    /\ batch_result = NoResult
    /\ \E sid \in SessionIds \cup {None}, connected \in BOOLEAN :
          /\ socket = [state |-> IF connected /\ sid # None THEN "open" ELSE "none",
                       session_id |-> sid, sending |-> FALSE, lost |-> FALSE]
          /\ active_connections =
                IF connected /\ sid # None
                THEN [s \in {sid} |-> "websocket"] ELSE << >>
    /\ frames = << >>

\* The steps of run_batch_ranking that do not touch the session.
EvaluationStep ==
    /\ \/ \E i \in 1..N : Enter(i)
       \/ \E i \in 1..N : OracleOk(i)
       \/ \E i \in 1..N : OracleRaise(i)
       \/ Gather
    /\ UNCHANGED sessionVars
    /\ StartTestsFrame

\* The callback is invoked under the lock and runs up to send_json.
CallbackInvoked ==
    /\ \E i \in 1..N : LockEnter(i)
    /\ socket' = [socket EXCEPT
                     !.sending = has_connection(active_connections,
                                                socket.session_id)]
    /\ UNCHANGED <<active_connections, frames>>
    /\ StartTestsFrame

\* send_json returned or raised (or there was nothing to send); the
\* callback returns and the lock is released.
CallbackReturns ==
    /\ \E i \in 1..N : LockExit(i)
    /\ IF socket.sending
       THEN \E sent \in (IF socket.state = "open" THEN BOOLEAN ELSE {FALSE}) :
               /\ active_connections' =
                     send_progress(active_connections, socket.session_id, sent)
               /\ frames' = IF sent THEN Append(frames, calls[Len(calls)])
                            ELSE frames
               /\ socket' = [socket EXCEPT !.sending = FALSE,
                                           !.lost = @ \/ ~sent]
       ELSE UNCHANGED sessionVars
    /\ StartTestsFrame

\* The client closes its end of the socket.
ClientLeaves ==
    /\ socket.state = "open"
    /\ socket' = [socket EXCEPT !.state = "closed"]
    /\ UNCHANGED <<active_connections, frames, batchVars>>
    /\ StartTestsFrame

\* websocket_endpoint, lines 108-109: receive_text raised
\* WebSocketDisconnect.
EndpointDisconnects ==
    /\ socket.state = "closed"
    /\ has_connection(active_connections, socket.session_id)
    /\ active_connections' = disconnect(active_connections, socket.session_id)
    /\ socket' = [socket EXCEPT !.lost = TRUE]
    /\ UNCHANGED <<frames, batchVars>>
    /\ StartTestsFrame

StartTestsNext ==
    \/ EvaluationStep
    \/ CallbackInvoked
    \/ CallbackReturns
    \/ ClientLeaves
    \/ EndpointDisconnects

\* The event loop runs every coroutine that can run; the client is free.
SpecStartTests ==
    /\ StartTestsInit
    /\ [][StartTestsNext]_vars
    /\ WF_vars(EvaluationStep \/ CallbackInvoked \/ CallbackReturns)

(***************************************************************************)
(* SpecOrder: run_batch_ranking with the order in which its coroutines     *)
(* return written down.                                                    *)
(***************************************************************************)
\* Scenarios of one ordered run.
MaxOrdered == 3

OrderFrame ==
    UNCHANGED <<storeVars, jobVars, workflows, wf, answers, rankVars, statVars,
                generation, description, url_ranking, flow, active_connections,
                socket, frames, activity>>

OrderInit ==
    /\ StoreInit /\ JobIdle /\ TemporalIdle /\ WebhookIdle /\ RankIdle /\ StatsIdle
    /\ generation = NoCalls
    /\ description = NoCalls
    /\ url_ranking = NoCalls
    /\ flow = NoCalls
    /\ active_connections = << >>
    /\ socket = NoCalls
    /\ frames = << >>
    /\ activity = NoCalls
    /\ order = << >>
    /\ \E n \in 0..MaxOrdered :
          /\ scenarios = [i \in 1..n |-> TestScenario(i)]
          /\ pc = [i \in 1..n |-> "waiting"]
          /\ oracle = [i \in 1..n |-> NoCall]
          /\ results = [i \in 1..n |-> NotReturned]
    /\ has_callback = FALSE
    /\ semaphore = 3
    /\ lock = FALSE
    /\ completed_count = 0
    /\ calls = << >>
    /\ batch_result = NoResult

\* The steps of a coroutine before it returns.
ScenarioStep ==
    /\ \/ \E i \in 1..N : Enter(i)
       \/ \E i \in 1..N : OracleOk(i)
       \/ \E i \in 1..N : OracleRaise(i)
       \/ \E i \in 1..N : LockEnter(i)
    /\ UNCHANGED order
    /\ OrderFrame

\* A coroutine returns its ScenarioResult.
ScenarioReturns ==
    /\ \E i \in 1..N : LockExit(i) /\ order' = Append(order, i)
    /\ OrderFrame

\* gather returns the results in the order of its arguments.
GatherReturns ==
    /\ Gather
    /\ UNCHANGED order
    /\ OrderFrame

OrderNext == ScenarioStep \/ ScenarioReturns \/ GatherReturns

SpecOrder == OrderInit /\ [][OrderNext]_vars

(***************************************************************************)
(* SpecCallback: run_batch_ranking with a progress callback that returns   *)
(* or raises.                                                              *)
(***************************************************************************)
\* Scenarios of one run with a raising callback.
MaxCallbackScenarios == 2
\* str(e) of the exception the callback raises.
CallbackErrors == {"callback failed"}
\* run_batch_ranking left by the exception gather raised.
BatchRaised == [total_tests |-> -1, raised |-> TRUE]

CallbackFrame ==
    UNCHANGED <<storeVars, jobVars, workflows, wf, answers, rankVars, statVars,
                callVars>>

CallbackInit ==
    /\ StoreInit /\ JobIdle /\ TemporalIdle /\ WebhookIdle /\ RankIdle /\ StatsIdle
    /\ CallsIdle
    /\ \E n \in 0..MaxCallbackScenarios :
          /\ scenarios = [i \in 1..n |-> TestScenario(i)]
          /\ pc = [i \in 1..n |-> "waiting"]
          /\ oracle = [i \in 1..n |-> NoCall]
          /\ results = [i \in 1..n |-> NotReturned]
    /\ has_callback = TRUE
    /\ semaphore = 3
    /\ lock = FALSE
    /\ completed_count = 0
    /\ calls = << >>
    /\ batch_result = NoResult

\* The steps of process_scenario in which the callback, if called, returns.
QuietStep ==
    /\ \/ \E i \in 1..N : Enter(i)
       \/ \E i \in 1..N : OracleOk(i)
       \/ \E i \in 1..N : OracleRaise(i)
       \/ \E i \in 1..N : LockEnter(i)
       \/ \E i \in 1..N : LockExit(i)
    /\ CallbackFrame

\* Lines 53-56: the callback raises inside the try block: the lock is left
\* and the except block of line 59 is entered.
CallbackRaisesInTry(i) ==
    /\ pc[i] = "inlock"
    /\ oracle[i].kind = "ok"
    /\ lock' = FALSE
    /\ \E e \in CallbackErrors :
          results' = [results EXCEPT ![i] = error_result(scenarios[i], e)]
    /\ pc' = [pc EXCEPT ![i] = "except"]
    /\ UNCHANGED <<scenarios, has_callback, semaphore, completed_count, calls,
                   oracle, batch_result>>
    /\ CallbackFrame

\* Lines 62-65: the except block takes the lock, advances the counter and
\* calls the callback.
ExceptLockEnter(i) ==
    /\ pc[i] = "except"
    /\ can_lock(lock)
    /\ lock' = TRUE
    /\ completed_count' = progress_after_error(completed_count)
    /\ calls' = Append(calls, <<progress_after_error(completed_count), N>>)
    /\ pc' = [pc EXCEPT ![i] = "inlock_except"]
    /\ UNCHANGED <<scenarios, has_callback, semaphore, oracle, results,
                   batch_result>>
    /\ CallbackFrame

\* Lines 67-73: the callback returned and the error result is returned.
ExceptLockExit(i) ==
    /\ pc[i] = "inlock_except"
    /\ lock' = FALSE
    /\ semaphore' = semaphore + 1
    /\ pc' = [pc EXCEPT ![i] = "returned"]
    /\ UNCHANGED <<scenarios, has_callback, completed_count, calls, oracle,
                   results, batch_result>>
    /\ CallbackFrame

\* The callback raises inside the except block: the exception leaves the
\* lock, the semaphore and process_scenario.
CallbackRaisesInExcept(i) ==
    /\ \/ pc[i] = "inlock_except"
       \/ pc[i] = "inlock" /\ oracle[i].kind = "raised"
    /\ lock' = FALSE
    /\ semaphore' = semaphore + 1
    /\ pc' = [pc EXCEPT ![i] = "raised"]
    /\ results' = [results EXCEPT ![i] = NotReturned]
    /\ UNCHANGED <<scenarios, has_callback, completed_count, calls, oracle,
                   batch_result>>
    /\ CallbackFrame

\* Line 81: gather has every result, and the statistics are returned.
GatherAll == Gather /\ CallbackFrame

\* Line 81: gather raises the first exception of a coroutine to
\* run_batch_ranking, which has no handler for it.
GatherRaises ==
    /\ batch_result = NoResult
    /\ \E i \in 1..N : pc[i] = "raised"
    /\ batch_result' = BatchRaised
    /\ UNCHANGED <<scenarios, has_callback, pc, semaphore, lock,
                   completed_count, calls, oracle, results>>
    /\ CallbackFrame

CallbackNext ==
    \/ QuietStep
    \/ \E i \in 1..N : CallbackRaisesInTry(i)
    \/ \E i \in 1..N : ExceptLockEnter(i)
    \/ \E i \in 1..N : ExceptLockExit(i)
    \/ \E i \in 1..N : CallbackRaisesInExcept(i)
    \/ GatherAll
    \/ GatherRaises

SpecCallback == CallbackInit /\ [][CallbackNext]_vars

\* The event loop runs every coroutine that can run, and every oracle call
\* and every callback invocation returns or raises.
FairSpecCallback == SpecCallback /\ WF_vars(CallbackNext)

(***************************************************************************)
(* SpecActivity: rank_single_scenario_activity for one scenario, under     *)
(* the workflow's retry policy, with rank_candidates under its own @retry. *)
(***************************************************************************)
\* The oracle's answers to one scenario: an APIError, content None, text
\* that is no JSON, and a complete answer.
ActivityReplies ==
    {ApiError, NoContent, Content(<<Garbage>>),
     Content(<<ObjectText([best_candidate_id |-> Str("A"),
                           reasoning |-> Str("why")])>>)}

\* DEFAULT_RETRY_POLICY names no non_retryable_error_types: an activity
\* attempt that raised is followed by another while attempts are left.
activity_retried(attempt) == attempt < maximum_attempts

ActivityFrame ==
    UNCHANGED <<storeVars, jobVars, workflows, wf, answers, batchVars, statVars,
                generation, description, url_ranking, flow, active_connections,
                socket, frames, order>>

ActivityInit ==
    /\ StoreInit /\ JobIdle /\ TemporalIdle /\ WebhookIdle /\ BatchIdle /\ StatsIdle
    /\ generation = NoCalls
    /\ description = NoCalls
    /\ url_ranking = NoCalls
    /\ flow = NoCalls
    /\ active_connections = << >>
    /\ socket = NoCalls
    /\ frames = << >>
    /\ order = << >>
    /\ activity = [state |-> "running", attempt |-> 1]
    /\ ranking = RankCall
    /\ replies = << >>

\* activities.py, lines 112-116: inside the activity rank_candidates makes
\* one attempt, the oracle answering with any reply.
OracleInvoked ==
    /\ activity.state = "running"
    /\ ranking.state = "calling"
    /\ \E reply \in ActivityReplies :
          /\ ranking' = after_attempt(ranking, rank_attempt(reply))
          /\ replies' = Append(replies, reply)
    /\ UNCHANGED activity
    /\ ActivityFrame

\* Lines 118-131: rank_candidates returned and so does the activity.
ActivityCompletes ==
    /\ activity.state = "running"
    /\ ranking.state = "returned"
    /\ activity' = [activity EXCEPT !.state = "completed"]
    /\ UNCHANGED <<ranking, replies>>
    /\ ActivityFrame

\* rank_candidates raised and the activity lets the exception out; the
\* server schedules the next attempt, which calls rank_candidates anew.
ActivityRetried ==
    /\ activity.state = "running"
    /\ ranking.state = "raised"
    /\ activity_retried(activity.attempt)
    /\ activity' = [activity EXCEPT !.attempt = @ + 1]
    /\ ranking' = RankCall
    /\ UNCHANGED replies
    /\ ActivityFrame

\* The last attempt raised: the activity, and the workflow, fail.
ActivityGivesUp ==
    /\ activity.state = "running"
    /\ ranking.state = "raised"
    /\ ~activity_retried(activity.attempt)
    /\ activity' = [activity EXCEPT !.state = "failed"]
    /\ UNCHANGED <<ranking, replies>>
    /\ ActivityFrame

ActivityNext ==
    \/ OracleInvoked
    \/ ActivityCompletes
    \/ ActivityRetried
    \/ ActivityGivesUp

SpecActivity == ActivityInit /\ [][ActivityNext]_vars

(***************************************************************************)
(* The claims.                                                             *)
(***************************************************************************)
Terminal == {COMPLETED, FAILED}

\* C1: once a task's status is completed or failed, no later update_status
\* call changes that task's status.
C1_TerminalIsFinal ==
    [][\A id \in DOMAIN store :
          store[id].status \in Terminal => store'[id].status = store[id].status]_vars

\* C2: every task_id an async submit endpoint returned is observable through
\* the result lookup: 202 while the task is pending or processing, 200 with
\* the stored result once it is completed, 500 once it is failed, and never
\* 404.
C2_SubmittedIsObservable ==
    \A id \in Submitted :
        LET answer == get_task_result(workflows, id) IN
        /\ answer.code # 404
        /\ store[id].status \in {PENDING, PROCESSING} => answer.code = 202
        /\ store[id].status = COMPLETED =>
              answer.code = 200 /\ answer.body = store[id].result
        /\ store[id].status = FAILED => answer.code = 500

\* C3: the BatchResult is built only after all N evaluations have finished,
\* has total_tests = N and exactly N scenario_details, the i-th of them for
\* the i-th input scenario.
C3_OneDetailPerScenario ==
    batch_result # NoResult =>
        /\ \A i \in 1..N : pc[i] = "returned"
        /\ batch_result.total_tests = N
        /\ Len(batch_result.scenario_details) = N
        /\ \A i \in 1..N :
              batch_result.scenario_details[i].scenario_id = scenarios[i].scenario_id

C3_Witness ==
    /\ batch_result # NoResult
    /\ N >= 3
    /\ \E i, j \in 1..N : oracle[i].kind = "raised" /\ oracle[j].kind = "ok"

\* The scenarios whose progress has been counted.
Counted == {i \in 1..N : pc[i] \in {"inlock", "returned"}}

\* C4: a scenario whose oracle call raised gets a decision with winner_id
\* "error", the error text as reasoning and processing_time 0; progress is
\* advanced for it as for any other scenario; and the batch still returns a
\* result in which every other scenario has the decision of its own oracle
\* call.
C4_FailureIsAbsorbed ==
    /\ completed_count = Cardinality(Counted)
    /\ \A i \in 1..N :
          oracle[i].kind = "raised" =>
              /\ results[i].winner_id = "error"
              /\ results[i].reasoning = <<"Error: ", oracle[i].error>>
              /\ results[i].processing_time = 0
    /\ batch_result # NoResult =>
          /\ completed_count = N
          /\ \A i \in 1..N :
                /\ oracle[i].kind # "none"
                /\ batch_result.scenario_details[i] = results[i]
                /\ oracle[i].kind = "ok" =>
                      results[i].winner_id = oracle[i].response.best_candidate_id

C4_Witness ==
    /\ batch_result # NoResult
    /\ \E i, j \in 1..N :
          /\ i < j
          /\ oracle[i].kind = "raised"
          /\ oracle[j].kind = "ok"
          /\ batch_result.scenario_details[i].winner_id = "error"
          /\ batch_result.scenario_details[j].winner_id \in CandidateIds

\* C5: at every moment at most 3 oracle calls are in flight, and the oracle
\* call of every scenario is eventually started.
C5_BoundedAndComplete ==
    /\ [](Cardinality(InFlight) <= 3)
    /\ \A i \in 1..MaxScenarios : <>(i <= N => pc[i] # "waiting")

C5_Witness ==
    /\ Cardinality(InFlight) = 3
    /\ \E i \in 1..N : pc[i] = "waiting"

\* C6: with a progress callback, the k-th invocation receives current = k
\* and total = N, and the run that has returned has invoked it exactly N
\* times.
C6_ProgressCountsUp ==
    has_callback =>
        /\ Len(calls) <= N
        /\ \A k \in 1..Len(calls) : calls[k] = <<k, N>>
        /\ batch_result # NoResult => Len(calls) = N

C6_Witness ==
    /\ has_callback
    /\ batch_result # NoResult
    /\ Len(calls) = N
    /\ N >= 2
    /\ \E i, j \in 1..N : oracle[i].kind = "raised" /\ oracle[j].kind = "ok"

\* C7: every deferred job writes processing first and then exactly one
\* terminal status: completed with the result when its work raised nothing,
\* failed with the error text when it raised; no job writes both.
C7_OneTerminalWrite ==
    \A id \in DOMAIN job :
        /\ job[id].pc = "start" => writes[id] = << >>
        /\ job[id].pc = "work" => writes[id] = <<PROCESSING>>
        /\ job[id].pc \in {"notify", "done", "raised"} =>
              /\ job[id].work = "ok" =>
                    /\ writes[id] = <<PROCESSING, COMPLETED>>
                    /\ store[id].status = COMPLETED
                    /\ store[id].result = job[id].value
              /\ job[id].work = "raised" =>
                    /\ writes[id] = <<PROCESSING, FAILED>>
                    /\ store[id].status = FAILED
                    /\ store[id].error = job[id].value

C7_Witness ==
    \E a, b \in DOMAIN job :
        /\ job[a].pc = "done" /\ job[a].work = "ok"
        /\ job[b].pc = "done" /\ job[b].work = "raised"
        /\ hook[a].state = "false"

\* C8: a notification that fails on all its attempts leaves the task's
\* stored record as it was when send_notification was called.
C8_UndeliveredLeavesRecord ==
    \A id \in DOMAIN store :
        undelivered[id] # NoTask => store[id] = undelivered[id]

C8_Witness ==
    \E id \in DOMAIN store :
        /\ undelivered[id] # NoTask
        /\ undelivered[id].status = COMPLETED
        /\ hook[id].posts = max_retries
        /\ job[id].pc = "done"

\* The workflows whose enrichment, generation and ranking steps all
\* succeeded.
StepsSucceeded == {wid \in DOMAIN wf : wf[wid].output # None}

\* C9: a webhook that cannot be delivered never makes the task failed: a
\* workflow whose enrichment, generation and ranking steps all succeeded is
\* never reported failed, and is reported completed with its result once it
\* is closed.
C9_WebhookNeverFailsTask ==
    \A wid \in StepsSucceeded :
        LET answer == get_task_result(workflows, wid) IN
        /\ answer.code # 500
        /\ answer.code = 200 => answer.body = wf[wid].output

\* The statuses send_notification takes as success.
Accepted(outcome) ==
    outcome.kind = "response" /\ outcome.code \in {200, 201, 202, 204}

\* C10: one call of send_notification makes at most 3 POSTs; it returns true
\* right after the first POST answered with a success status (200, 201, 202
\* or 204), false after exactly 3 POSTs none of which was, and raises
\* nothing.
C10_AtMostThreePosts ==
    LET h == hook[Notified]
        n == Len(answers)
    IN /\ h.posts = n
       /\ n <= 3
       /\ h.state \in {"sending", "true", "false"}
       /\ \A k \in 1..(n - 1) : ~Accepted(answers[k])
       /\ h.state = "sending" => n < 3 /\ \A k \in 1..n : ~Accepted(answers[k])
       /\ h.state = "true" => Accepted(answers[n])
       /\ h.state = "false" => n = 3 /\ ~Accepted(answers[3])

C10_Witness ==
    /\ hook[Notified].state = "true"
    /\ Len(answers) = 3
    /\ answers[1] = Timeout
    /\ answers[2] = Response(500)

\* C11: every POST answered by a status code in 200..299 is a delivery:
\* it is the last POST of the call and the call returns True.
C11_Any2xxIsDelivered ==
    \A k \in 1..Len(answers) :
        (answers[k].kind = "response" /\ answers[k].code \in 200..299)
        => /\ k = Len(answers)
           /\ hook[Notified].state = "true"

\* C12: a task submitted with a webhook_url that has reached completed or
\* failed has had a notification with that status attempted, in the
\* in-process binding (the deferred jobs) and in the durable-workflow
\* binding (the workflow executions) alike.
C12_TerminalIsNotified ==
    /\ \A id \in DOMAIN job :
          (job[id].webhook_url # None /\ store[id].status \in Terminal)
          => /\ hook[id] # NoHook
             /\ hook[id].status = store[id].status
    /\ \A wid \in DOMAIN wf :
          LET status == _map_temporal_status(workflows[wid].status) IN
          (wf[wid].webhook_url # None /\ status \in Terminal)
          => /\ wf[wid].hook # NoHook
             /\ wf[wid].hook.status = status

\* C13: once a notification with status completed has been delivered for a
\* task, the result lookup for its task_id answers 200 with the task's
\* result, in both bindings.
C13_DeliveredThenResult ==
    /\ \A id \in DOMAIN job :
          (hook[id].state = "true" /\ hook[id].status = COMPLETED)
          => get_task_result(workflows, id) =
                [code |-> 200, body |-> store[id].result]
    /\ \A wid \in DOMAIN wf :
          (wf[wid].hook.state = "true" /\ wf[wid].hook.status = COMPLETED)
          => get_task_result(workflows, wid) =
                [code |-> 200, body |-> wf[wid].output]

\* The replies whose content does not decode as JSON.
Undecodable(reply) == rank_attempt(reply) = Raise("JSONDecodeError")

\* C14: one rank_candidates call invokes the oracle at most 3 times and
\* never again after an attempt that succeeded; two replies that fail to
\* decode followed by a good one give the decision of the third reply after
\* exactly 3 invocations; replies that all fail to decode make the call fail
\* after exactly 3 invocations, not before.
C14_AtMostThreeInvocations ==
    LET n == Len(replies) IN
    /\ n <= 3
    /\ ranking.state = "calling" => ranking.attempt_number = n + 1
    /\ ranking.state \in {"returned", "raised"} => ranking.attempt_number = n
    /\ \A k \in 1..(n - 1) : rank_attempt(replies[k]).kind = "raise"
    /\ ranking.state = "returned" =>
          ranking.response = rank_attempt(replies[n]).response
    /\ (/\ n = 3
        /\ Undecodable(replies[1])
        /\ Undecodable(replies[2])
        /\ rank_attempt(replies[3]).kind = "return") => ranking.state = "returned"
    /\ (\A k \in 1..n : Undecodable(replies[k])) =>
          IF n = 3 THEN ranking.state = "raised" ELSE ranking.state = "calling"

C14_Witness ==
    /\ Len(replies) = 3
    /\ Undecodable(replies[1])
    /\ Undecodable(replies[2])
    /\ ranking.state = "returned"
    /\ ranking.response.best_candidate_id = "A"

\* The replies that end an attempt in a decode failure (json.loads) or a
\* validation failure (RankingResponse).
OutputFailure(reply) ==
    rank_attempt(reply).exc \in {"JSONDecodeError", "ValidationError"}

\* C15: when every attempt ended in a decode or validation failure, the
\* error the caller gets after the last attempt is an LLMOutputError.
C15_SurfacesOutputError ==
    (/\ ranking.state = "raised"
     /\ \A k \in 1..Len(replies) : OutputFailure(replies[k]))
    => ranking.error = "LLMOutputError"

\* The replies that decode as a JSON object lacking best_candidate_id or
\* reasoning.
LacksField(reply) ==
    /\ reply.kind = "content"
    /\ json_loads(clean_content(reply.raw)).ok
    /\ DOMAIN json_loads(clean_content(reply.raw)).data
          # {"best_candidate_id", "reasoning"}

\* C16: a reply that decodes but lacks the winner id or the reasoning is
\* retried like output that does not parse: the call fails on such a reply
\* only when it was the reply to the third attempt.
C16_MissingFieldIsRetried ==
    (/\ ranking.state = "raised"
     /\ Len(replies) > 0
     /\ LacksField(replies[Len(replies)]))
    => Len(replies) = stop_after_attempt

\* C17: the winner id of a decision rank_candidates returned is the id of
\* one of the candidates of the call.
C17_WinnerIsCandidate ==
    ranking.state = "returned" => ranking.response.best_candidate_id \in CandidateIds

\* C18: whatever the oracle did, errors and winner ids that are no
\* candidate's included, the keys of win_rate are the ids of the input
\* candidates exactly and every win rate lies between 0 and 1.
C18_WinRateOverCandidates ==
    aggregate # NoResult =>
        /\ DOMAIN aggregate.out.win_rate = CandidateIds
        /\ \A c \in CandidateIds :
              LET rate == aggregate.out.win_rate[c] IN
              /\ rate.den > 0
              /\ 0 <= rate.num
              /\ rate.num <= rate.den

C18_Witness ==
    /\ aggregate # NoResult
    /\ aggregate.binding = "in_process"
    /\ Len(gathered) >= 3
    /\ \E i, j, k \in 1..Len(gathered) :
          /\ gathered[i].winner_id = "error"
          /\ gathered[j].winner_id \notin CandidateIds \cup {"error"}
          /\ gathered[k].winner_id = "A"
    /\ aggregate.out.win_rate["B"].num = 0

\* C19: the win-count map has an entry for every input candidate id, 0 for
\* a candidate that won no scenario, and no other key.
C19_CountsOverCandidates ==
    aggregate # NoResult =>
        /\ DOMAIN aggregate.out.results = CandidateIds
        /\ \A c \in CandidateIds : aggregate.out.results[c] = Wins(gathered, c)

\* The sum of the values of a count map.
RECURSIVE SumOver(_, _)
SumOver(counts, keys) ==
    IF keys = {} THEN 0
    ELSE LET k == CHOOSE x \in keys : TRUE
         IN counts[k] + SumOver(counts, keys \ {k})

\* C20: the win counts sum to at most total_tests, and to total_tests
\* exactly when no scenario has an "error" decision.
C20_CountsSumToTotal ==
    aggregate # NoResult =>
        LET out == aggregate.out
            sum == SumOver(out.results, DOMAIN out.results)
            errors == {k \in 1..Len(gathered) : gathered[k].winner_id = "error"}
        IN /\ sum <= out.total_tests
           /\ sum = out.total_tests <=> errors = {}

\* The winner ids of the gathered results, in order.
WinnerIds == [k \in 1..Len(gathered) |-> gathered[k].winner_id]

\* C21: the in-process aggregation gives each candidate the rate
\* (scenarios it won) / (scenarios evaluated, the failed ones included),
\* 0 when none was evaluated, and counts no win for "error"; for
\* candidates [A, B] and three scenarios all won by A it gives
\* win_rate = {A: 1, B: 0}, results = {A: 3} and total_tests = 3.
C21_RateIsWinsOverEvaluated ==
    (aggregate # NoResult /\ aggregate.binding = "in_process") =>
        LET out == aggregate.out
            evaluated == Len(gathered)
            won(c) == Cardinality({k \in 1..evaluated : WinnerIds[k] = c})
        IN /\ out.total_tests = evaluated
           /\ "error" \notin DOMAIN out.results
           /\ \A c \in CandidateIds :
                 IF evaluated = 0
                 THEN out.win_rate[c].num = 0
                 ELSE /\ out.win_rate[c].num = won(c)
                      /\ out.win_rate[c].den = evaluated
           /\ WinnerIds = <<"A", "A", "A">> =>
                 /\ out.win_rate["A"].num = out.win_rate["A"].den
                 /\ out.win_rate["B"].num = 0
                 /\ out.results = [c \in {"A"} |-> 3]
                 /\ out.total_tests = 3

C21_Witness ==
    /\ aggregate # NoResult
    /\ aggregate.binding = "in_process"
    /\ WinnerIds = <<"A", "error", "B", "A">>
    /\ aggregate.out.win_rate["A"] = [num |-> 2, den |-> 4]

\* C22: for the same candidates and the same per-scenario outcomes the two
\* bindings' aggregations give the same total_tests, the same results map,
\* the same win_rate map and the same winner ids in scenario_details.
C22_BindingsAgree ==
    aggregate # NoResult =>
        LET a == _calculate_statistics(gathered, Candidates)
            b == BatchRankingWorkflow_calculate_statistics(gathered, Candidates)
        IN /\ aggregate.out \in {a, b}
           /\ a.total_tests = b.total_tests
           /\ a.results = b.results
           /\ a.win_rate = b.win_rate
           /\ [k \in 1..Len(a.scenario_details) |-> a.scenario_details[k].winner_id]
                 = [k \in 1..Len(b.scenario_details) |-> b.scenario_details[k].winner_id]

\* C23: generate_scenarios returns exactly num_scenarios scenarios,
\* whatever the oracle did, in both modes.
C23_ExactlyRequestedCount ==
    generation.state = "returned" =>
        Len(generation.scenarios) = generation.num_scenarios

\* C24: when the oracle is unreachable or its output is no JSON,
\* generate_scenarios returns count scenarios, the k-th of them with the id
\* fallback_<k-1> and a description that is not empty and depends on k only.
C24_FallbackOfRequestedCount ==
    (/\ generation.state = "returned"
     /\ generation.reply.kind \in {"unreachable", "no_content", "not_json"})
    => /\ Len(generation.scenarios) = generation.num_scenarios
       /\ \A k \in 1..Len(generation.scenarios) :
             /\ generation.scenarios[k].scenario_id = <<"fallback_", k - 1>>
             /\ generation.scenarios[k].description # << >>
             /\ generation.scenarios[k].description = <<"generic scenario ", k>>

C24_Witness ==
    /\ generation.state = "returned"
    /\ generation.reply.kind = "unreachable"
    /\ generation.custom_query = None
    /\ generation.num_scenarios = 3
    /\ Len(generation.scenarios) = 3

\* C25: the record of the id create_task returns has status pending,
\* result None, error None and completed_at None; after
\* update_status(X, completed, result=R) get_task(X) shows status
\* completed, result R and completed_at set, with task_id, type,
\* created_at, webhook_url and request payload as they were.
C25_CreateThenComplete ==
    /\ Cardinality(DOMAIN store) < Len(TaskIds) =>
          \A ty \in TaskType, rd \in Payloads, url \in WebhookUrls \cup {None} :
              LET X == FreshId(store)
                  task == get_task(create_task(store, X, ty, rd, url, now), X)
              IN /\ task.task_id = X
                 /\ task.status = PENDING
                 /\ task.result = None
                 /\ task.error = None
                 /\ task.completed_at = NoTime
    /\ \A X \in DOMAIN store, R \in Results :
          LET before == get_task(store, X)
              after == get_task(update_status(store, X, COMPLETED, R, None, now), X)
          IN /\ after.status = COMPLETED
             /\ after.result = R
             /\ after.completed_at = now
             /\ after.completed_at # NoTime
             /\ after.task_id = before.task_id
             /\ after.task_type = before.task_type
             /\ after.created_at = before.created_at
             /\ after.webhook_url = before.webhook_url
             /\ after.request_data = before.request_data

C25_Witness ==
    \E X \in DOMAIN store :
        /\ store[X].status = COMPLETED
        /\ store[X].result = "R1"
        /\ store[X].error = None
        /\ store[X].created_at = 0
        /\ store[X].completed_at = 1

\* C26: update_status with a task_id the store does not hold creates no
\* record, changes no record and raises nothing: the store is as it was.
C26_UnknownIdIsNoOp ==
    \A id \in AllIds \ DOMAIN store, s \in TaskStatus,
       r \in Results \cup {None}, e \in Errors \cup {None} :
        update_status(store, id, s, r, e, now) = store

C26_Witness ==
    /\ DOMAIN store = {TaskIds[1]}
    /\ store[TaskIds[1]].status = PROCESSING
    /\ UnknownId \notin DOMAIN store

\* C27: a record created task_ttl (7 days) ago or earlier is no longer
\* returned by get_task, whatever its status.
C27_ExpiresAfterTtl ==
    \A id \in AllIds :
        (id \in DOMAIN store /\ now - store[id].created_at >= task_ttl)
        => get_task(store, id) = NoTask

\* C28: truncating a description that was already truncated gives a
\* description no longer than the one it was given, whatever the length of
\* the original.
C28_RetruncationDoesNotGrow ==
    \A k \in 3..Len(description.lengths) :
        description.lengths[k] <= description.lengths[k - 1]

\* C29: in every binding, when the oracle selected the synthetic candidate
\* url_<i>, the best_candidate_id returned is the i-th url of the request
\* (i counted from 0), not the synthetic id.
C29_WinnerIsRemappedToUrl ==
    url_ranking.state = "answered" =>
        \A i \in 0..(Len(url_ranking.urls) - 1) :
            url_ranking.pick = synthetic_id(i)
            => url_ranking.best_candidate_id = url_ranking.urls[i + 1]

\* C30: within one run_batch_ranking no two invocations of the progress
\* callback overlap: at most one invocation is pending at any moment, and
\* while one is pending the counter is not incremented and no other
\* invocation starts.
C30_CallbacksDoNotOverlap ==
    /\ [](Cardinality(InCallback) <= 1)
    /\ [][InCallback # {} =>
             /\ completed_count' = completed_count
             /\ calls' = calls]_vars

C30_Witness ==
    /\ has_callback
    /\ Cardinality(InCallback) = 1
    /\ Cardinality({i \in 1..N : pc[i] = "lockwait"}) = 2
    /\ completed_count >= 1

\* C31: in every reachable state of the store, a record's completed_at is
\* set if and only if its status is completed or failed.
C31_CompletedAtIffTerminal ==
    \A id \in DOMAIN store :
        (store[id].completed_at # NoTime)
        <=> (store[id].status \in {COMPLETED, FAILED})

\* C32: in every reachable state of the store, a record has a result only if
\* its status is completed and an error only if its status is failed.
C32_ResultAndErrorMatchStatus ==
    \A id \in DOMAIN store :
        /\ store[id].result # None => store[id].status = COMPLETED
        /\ store[id].error # None => store[id].status = FAILED

\* C33: in every batch flow the enrichment of the candidates' descriptions
\* is over before the first evaluation starts, each candidate's description
\* is written at most once, and no candidate is written while an evaluation
\* is in flight.
C33_EnrichmentBeforeEvaluation ==
    flow.state # "idle" =>
        /\ \A i \in 1..Len(flow.candidates) : flow.written[i] <= 1
        /\ flow.started > 0 => flow.todo = << >> /\ ~flow.scraping
        /\ ~flow.late

C33_Witness ==
    /\ flow.state = "running"
    /\ flow.binding = "BatchRankingWorkflow"
    /\ flow.started > flow.finished
    /\ \E i \in 1..Len(flow.candidates) : flow.written[i] = 1

\* C34: once a progress frame could not be delivered to the session's
\* socket, or the socket disconnected, the session is out of the registry
\* and no later frame is sent to it, and the batch still evaluates every
\* scenario and returns its full BatchResult.
C34_LostSessionDoesNotStopBatch ==
    /\ [](socket.state # "idle" /\ socket.lost =>
             ~has_connection(active_connections, socket.session_id))
    /\ [][socket.state # "idle" /\ socket.lost => frames' = frames]_vars
    /\ [](batch_result # NoResult =>
             /\ Len(batch_result.scenario_details) = N
             /\ completed_count = N)
    /\ <>(batch_result # NoResult)

C34_Witness ==
    /\ socket.state # "idle"
    /\ socket.lost
    /\ batch_result # NoResult
    /\ Len(frames) >= 1
    /\ Len(frames) + 1 < Len(calls)

\* C35: the scenario_ids of the list generate_scenarios returns are pairwise
\* distinct, also when some items got the positional id s_<n> and others
\* carry an id the oracle chose.
C35_ScenarioIdsDistinct ==
    generation.state = "returned" =>
        \A j, k \in 1..Len(generation.scenarios) :
            j # k => generation.scenarios[j].scenario_id
                     # generation.scenarios[k].scenario_id

\* C36: for every oracle output that is a payload enclosed in code-fence
\* markers, the opening one with or without a language tag, the text handed
\* to the decoder is the payload alone; output without fences is handed
\* over as it is.
C36_FencesAreStripped ==
    \A k \in 1..Len(replies) :
        replies[k].kind = "content" =>
            LET raw == replies[k].raw
                fenced == /\ Len(raw) = 3
                          /\ raw[1].t \in {"fence_json", "fence"}
                          /\ raw[3].t = "fence"
            IN /\ fenced => clean_content(raw) = <<raw[2]>>
               /\ ~fenced => clean_content(raw) = raw

\* C37: the i-th entry of scenario_details is the decision for the i-th
\* input scenario, with its scenario_id and description and the outcome of
\* its own oracle call, whatever the order in which the evaluations
\* completed.
C37_DetailsInInputOrder ==
    batch_result # NoResult =>
        /\ Len(batch_result.scenario_details) = N
        /\ \A i \in 1..N :
              LET d == batch_result.scenario_details[i] IN
              /\ d.scenario_id = scenarios[i].scenario_id
              /\ d.scenario_description = scenarios[i].description
              /\ d = results[i]
              /\ oracle[i].kind = "ok" =>
                    d.winner_id = oracle[i].response.best_candidate_id
              /\ oracle[i].kind = "raised" => d.winner_id = "error"

C37_Witness ==
    /\ batch_result # NoResult
    /\ N >= 3
    /\ order[1] = N
    /\ order[N] = 1
    /\ batch_result.scenario_details[1].winner_id
          # batch_result.scenario_details[N].winner_id

\* C38: whatever the oracle and the progress callback do, a raising
\* callback included, the counter never exceeds the number of scenarios
\* and a scenario whose ranking succeeded is never given an "error"
\* decision.
C38_CountedOnceAndFaithful ==
    /\ completed_count <= N
    /\ \A i \in 1..N :
          pc[i] = "returned" /\ oracle[i].kind = "ok"
          => results[i].winner_id = oracle[i].response.best_candidate_id

\* C40: run_batch_ranking returns a BatchResult for any number of
\* scenarios, every oracle call and every callback invocation coming to an
\* end.
C40_ReturnsBatchResult ==
    <>(batch_result # NoResult /\ batch_result # BatchRaised)

\* C39: for one scenario evaluation in the durable-workflow binding the
\* oracle is invoked at most 3 times in total.
C39_AtMostThreeInTotal ==
    activity.state # "idle" => Len(replies) <= stop_after_attempt

====
